---- MODULE Spec2Model ----
(***************************************************************************)
(* The MACD trading application: the Portfolio Ledger (TradingEngine of    *)
(* trading_engine.py) driven by its callers in app.py: the decision tick   *)
(* strategy_check_signals, run by the scheduler's thread, and the HTTP     *)
(* handlers manual_position, start_strategy, stop_strategy and the         *)
(* read-only queries, run by the web server's threads.                     *)
(*                                                                         *)
(* Threads share the engine without any lock.  A thread can be descheduled *)
(* wherever it blocks on the exchange (latency probe, price fetch, order   *)
(* submission) and, inside close_position, at the call to datetime.now()   *)
(* of line 283; each action below is the code between two such points.     *)
(*                                                                         *)
(* Arithmetic is exact.  Prices are whole USDT.  Quantities are counted in *)
(* 1/QtyScale of a coin.  Money is counted in 1/(QtyScale*Den) USDT, with  *)
(* Den = 2^MaxCalls, so that halving the balance (allocation = 0.5 *      *)
(* available_balance) is exact for as many opens as the model allows.      *)
(* Ratios (percentages, win rate, drawdown) are pairs [num, den].          *)
(***************************************************************************)
EXTENDS Integers, Sequences, FiniteSets, TLC

\* ---------------------------------------------------------------- bounds
\* At most MaxCalls calls of open_position and close_position that reach the
\* exchange are started by requests and ticks in one behaviour.
MaxCalls == 3

\* ------------------------------------------------------------- constants
QtyDigits == 3
MinNotional == 10
AllocDivisor == 2
Hundred == 100
\* KlineCollector(binance_client, kline_interval=30), seconds
kline_interval == 30
\* bars kept per symbol
HistoryCap == 1000
\* fetch_historical_klines(symbol, num_candles=100): one-minute candles
num_candles == 100
CandleSeconds == 60
\* the clock counts tenths of a millisecond
UnitsPerMs == 10
UnitsPerSecond == 1000 * UnitsPerMs
\* the clock when the process starts: num_candles minutes and 20 seconds
StartClock == (num_candles * CandleSeconds + 20) * UnitsPerSecond
\* fractional digits StrategyStats.to_dict keeps: money and ratios
MoneyDigits == 2
RatioDigits == 4
max_positions == 1

QtyScale == 10 ^ QtyDigits
Den == 2 ^ MaxCalls
\* u USDT in money units
Money(u) == u * QtyScale * Den

\* the symbols requests and ticks name: the configured one
Symbols == {"BTCUSDT"}
\* STRATEGY_CONFIG['symbols']
StrategySymbol == "BTCUSDT"
Sides == {"BUY", "SELL"}
Signals == {"GOLDEN_CROSS", "DEAD_CROSS", "NONE"}
\* TradingEngine(binance_client, initial_capital): whole USDT
InitialCapitals == {3000, 30, 0}
\* prices the exchange may quote, whole USDT; NoPrice is a failed fetch
Prices == {50000, 51000}
NoPrice == 0
\* milliseconds a successful latency probe may measure
LatencySamples == {0, 35}
\* Python's None in a numeric field
None == -1

Procs == {"sched", "web"}
Web == {"web"}
Sched == "sched"

VARIABLES
    initial_capital,   \* self.initial_capital
    available_balance, \* self.available_balance
    total_capital,     \* self.total_capital
    trade,             \* the Trade objects, in creation order; index = identity
    trades,            \* self.trades: symbol -> list of Trade (by index)
    active_positions,  \* self.active_positions: insertion-ordered dict, as a
                       \* sequence of [symbol, trade]
    closed_trades,     \* self.closed_trades: list of Trade (by index)
    equity_curve,      \* self.equity_curve: list of [equity, available]
    stats,             \* self.stats
    network_latency,   \* self.network_latency
    last_error,        \* self.last_error
    enabled,           \* STRATEGY_CONFIG['enabled']
    close_orders,      \* exchange side: closing orders received, per Trade
    pc,                \* where each thread is
    loc,               \* each thread's locals
    qcase,             \* one evaluation of the quantity computation
    clock,             \* the time of day datetime.now() gives
    klines,            \* KlineCollector.klines: symbol -> list of bars
    current_kline,     \* KlineCollector.current_kline
    last_update,       \* KlineCollector.last_update
    price_data,        \* what the last _fetch_current_price returned
    phase,             \* where initialize_components and the collector are
    nticks,            \* passes of _collection_loop so far
    is_collecting,     \* KlineCollector.is_collecting
    threads,           \* the threads start_collection created, in order; the
                       \* last one is self.collection_thread
    strategies,        \* MultiSymbolMACDStrategy.strategies
    last_signal,       \* the MACDSignal the last add_kline returned
    ecase              \* one evaluation of _ema

ledger == <<available_balance, total_capital, trade, trades, active_positions,
            closed_trades, equity_curve, stats>>
\* what no thread's step changes
collector == <<clock, klines, current_kline, last_update, price_data, phase,
               nticks, is_collecting, threads>>
strategy == <<strategies, last_signal, ecase>>
fixed == <<initial_capital, qcase, collector, strategy>>
engine == <<initial_capital, available_balance, total_capital, trade, trades,
            active_positions, closed_trades, equity_curve, stats,
            network_latency, last_error, enabled, close_orders, pc, loc, qcase>>
vars == <<engine, collector, strategy>>

\* ------------------------------------------------------------ ratios
Ratio(n, d) == [num |-> n, den |-> d]
ZeroRatio == Ratio(0, 1)

\* a/b < c/d for a, c >= 0 and b, d > 0, by continued fractions (no products)
RECURSIVE FracLess(_, _, _, _)
FracLess(a, b, c, d) ==
    LET qa == a \div b
        qc == c \div d
        ra == a % b
        rc == c % d
    IN  IF qa # qc THEN qa < qc
        ELSE IF rc = 0 THEN FALSE
        ELSE IF ra = 0 THEN TRUE
        ELSE FracLess(d, rc, b, ra)

\* ------------------------------------------------------------ helpers
ActiveSymbols == {active_positions[i].symbol : i \in 1..Len(active_positions)}
\* symbol in self.active_positions
HasPosition(sym) == sym \in ActiveSymbols
\* self.active_positions[symbol]
ActiveTrade(sym) ==
    active_positions[CHOOSE i \in 1..Len(active_positions) :
                        active_positions[i].symbol = sym].trade
\* self.active_positions[symbol] = trade
ActiveSet(ap, sym, tid) ==
    IF \E i \in 1..Len(ap) : ap[i].symbol = sym
    THEN [i \in 1..Len(ap) |->
            IF ap[i].symbol = sym THEN [symbol |-> sym, trade |-> tid] ELSE ap[i]]
    ELSE Append(ap, [symbol |-> sym, trade |-> tid])
\* del self.active_positions[symbol]
ActiveDel(ap, sym) == SelectSeq(ap, LAMBDA e : e.symbol # sym)

\* ------------------------------------------------------- pure functions
\* the precisions table of _format_quantity and its default
Precision(symbol) ==
    CASE symbol = "BTCUSDT" -> 3
      [] symbol = "ETHUSDT" -> 3
      [] symbol = "BNBUSDT" -> 2
      [] symbol = "LTCUSDT" -> 3
      [] OTHER -> 3

\* _format_quantity with round() in place of floor()
format_quantity_rounded(symbol, num, den) ==
    LET p == Precision(symbol)
        unit == den \div (10 ^ p)
    IN  ((2 * num + unit) \div (2 * unit)) * (10 ^ (QtyDigits - p))

\* _format_quantity(symbol, quantity) for quantity = num/den coins, den a
\* multiple of 10^p: floor(quantity * 10^p) / 10^p, in 1/QtyScale coins
format_quantity(symbol, num, den) ==
    LET p == Precision(symbol)
    IN  (num \div (den \div (10 ^ p))) * (10 ^ (QtyDigits - p))

\* _allocate_position_size using the whole balance
allocate_position_size_whole(balance) == balance

\* _allocate_position_size(symbol, 0.5): available_balance * percentage
allocate_position_size(balance) == balance \div AllocDivisor

\* price * quantity, in money units
Notional(price, qty) == price * qty * Den

\* Trade(...) as open_position constructs it
NewTrade(sym, side, price, qty, signal) ==
    [symbol |-> sym, side |-> side, entry_price |-> price,
     entry_quantity |-> qty, exit_price |-> None, exit_quantity |-> None,
     exit_time |-> None, profit_loss |-> 0, profit_loss_pct |-> ZeroRatio,
     status |-> "open", macd_signal |-> signal]

\* the profit computed as for a LONG whatever the side
ProfitLoss_long_only(tr, x) == Notional(x - tr.entry_price, tr.entry_quantity)

\* the profit of closing trade tr at price x (lines 287-290)
ProfitLoss(tr, x) ==
    IF tr.side = "BUY"
    THEN Notional(x - tr.entry_price, tr.entry_quantity)
    ELSE Notional(tr.entry_price - x, tr.entry_quantity)

\* the loop of _update_stats with the peak never raised
RECURSIVE DrawdownScan_fixed_peak(_, _, _, _)
DrawdownScan_fixed_peak(curve, i, peak, max_dd) ==
    IF i > Len(curve) THEN max_dd
    ELSE LET dd == Ratio(peak - curve[i].equity, peak)
         IN  DrawdownScan_fixed_peak(curve, i + 1, peak,
                 IF FracLess(max_dd.num, max_dd.den, dd.num, dd.den)
                 THEN dd ELSE max_dd)

\* the loop of _update_stats over the equity curve from index i on
RECURSIVE DrawdownScan(_, _, _, _)
DrawdownScan(curve, i, peak, max_dd) ==
    IF i > Len(curve) THEN max_dd
    ELSE LET eq == curve[i].equity
             pk == IF eq > peak THEN eq ELSE peak
             dd == Ratio(pk - eq, pk)
         IN  DrawdownScan(curve, i + 1, pk,
                 IF FracLess(max_dd.num, max_dd.den, dd.num, dd.den)
                 THEN dd ELSE max_dd)

\* _update_stats computing roi before current_capital is refreshed
update_stats_roi_first(st, tc, ab, curve) ==
    [st EXCEPT
        !.current_capital = tc,
        !.available_balance = ab,
        !.roi = Ratio((st.current_capital - initial_capital) * Hundred,
                      initial_capital),
        !.max_drawdown =
            IF curve # <<>>
            THEN DrawdownScan(curve, 1, curve[1].equity, ZeroRatio)
            ELSE @]

\* _update_stats, as the new value of self.stats
update_stats(st, tc, ab, curve) ==
    [st EXCEPT
        !.current_capital = tc,
        !.available_balance = ab,
        !.roi = Ratio((tc - initial_capital) * Hundred, initial_capital),
        !.max_drawdown =
            IF curve # <<>>
            THEN DrawdownScan(curve, 1, curve[1].equity, ZeroRatio)
            ELSE @]

\* measure_network_latency: the value stored in self.network_latency
measure_network_latency(ok, elapsed) == IF ok THEN elapsed ELSE 0

\* round(): q + rem/den, 0 <= rem < den, to the nearest integer, ties to even
RoundHalfEven(q, rem, den) ==
    IF 2 * rem > den \/ (2 * rem = den /\ q % 2 = 1) THEN q + 1 ELSE q

\* round(x, 2) of a money amount, in 1/10^MoneyDigits USDT
round_money(v) ==
    LET unit == Money(1) \div (10 ^ MoneyDigits)
    IN  RoundHalfEven(v \div unit, v % unit, unit)

\* the first k decimal digits of r/den, 0 <= r < den, and what is left
RECURSIVE LongDiv(_, _, _)
LongDiv(r, den, k) ==
    IF k = 0 THEN [q |-> 0, r |-> r]
    ELSE LET rest == LongDiv((r * 10) % den, den, k - 1)
         IN  [q |-> ((r * 10) \div den) * (10 ^ (k - 1)) + rest.q, r |-> rest.r]

\* round(x, 4) of a ratio, in 1/10^RatioDigits
round_ratio(x) ==
    LET f == LongDiv(x.num % x.den, x.den, RatioDigits)
    IN  RoundHalfEven((x.num \div x.den) * (10 ^ RatioDigits) + f.q, f.r, x.den)

\* StrategyStats.to_dict
stats_to_dict(st) ==
    [initial_capital |-> round_money(st.initial_capital),
     current_capital |-> round_money(st.current_capital),
     available_balance |-> round_money(st.available_balance),
     total_trades |-> st.total_trades,
     winning_trades |-> st.winning_trades,
     losing_trades |-> st.losing_trades,
     total_profit_loss |-> round_money(st.total_profit_loss),
     profit_loss_pct |-> round_ratio(st.profit_loss_pct),
     win_rate |-> round_ratio(st.win_rate),
     max_drawdown |-> round_ratio(st.max_drawdown),
     roi |-> round_ratio(st.roi)]

\* ------------------------------------------------------ the bar collector
\* a missing dictionary entry or a failed fetch
NoKline == [open_time |-> None]

\* int(now.timestamp() * 1000)
timestamp_ms(t) == t \div UnitsPerMs

\* the bar lines 114-122 and 139-147 build from a snapshot taken at now
new_kline(now, pd) ==
    [open_time |-> timestamp_ms(now), open |-> pd.close, high |-> pd.close,
     low |-> pd.close, close |-> pd.close, volume |-> 0,
     close_time |-> timestamp_ms(now)]

\* lines 151-160 leaving high and low as they were
updated_kline_close_only(bar, now, pd) ==
    [bar EXCEPT !.close = pd.close, !.close_time = timestamp_ms(now)]

\* lines 151-160: the bar in progress takes the snapshot in
updated_kline(bar, now, pd) ==
    [bar EXCEPT
        !.high = IF pd.close > @ THEN pd.close ELSE @,
        !.low = IF pd.close < @ THEN pd.close ELSE @,
        !.close = pd.close,
        !.close_time = timestamp_ms(now)]

\* lines 131-132: the bar as it is appended to the history
closed_kline(bar, last) == [bar EXCEPT !.close_time = timestamp_ms(last)]

\* line 129 asking for more than the interval
kline_due_after(now, last) == now - last > kline_interval * UnitsPerSecond

\* lines 126-129: time_diff >= self.kline_interval
kline_due(now, last) == now - last >= kline_interval * UnitsPerSecond

\* lines 135-136 keeping the first bars of the list
limit_history_oldest(h) ==
    IF Len(h) > HistoryCap THEN SubSeq(h, 1, HistoryCap) ELSE h

\* lines 135-136 also moving the close_time of the bar before the new one
\* up to the new one's open_time
limit_history_restamp(h) ==
    LET n == Len(h)
        g == IF n > 1
             THEN [h EXCEPT ![n - 1].close_time = h[n].open_time] ELSE h
    IN  IF n > HistoryCap THEN SubSeq(g, n - HistoryCap + 1, n) ELSE g

\* lines 135-136: only the last HistoryCap bars are kept
limit_history(h) ==
    IF Len(h) > HistoryCap
    THEN SubSeq(h, Len(h) - HistoryCap + 1, Len(h)) ELSE h

\* ------------------------------------------------------------ threads
Loc0 ==
    [op |-> "none", caller |-> "none", sym |-> "none", side |-> "none",
     signal |-> "none", price |-> 0, alloc |-> 0, bal0 |-> 0, qty |-> 0,
     tid |-> 0, dup |-> FALSE, mut |-> FALSE, ok |-> FALSE, orders |-> 0,
     todo |-> <<>>, view |-> <<>>, raised |-> FALSE]

OpenPcs == {"o_call", "o_order"}
\* open_position calls started so far
OpensStarted == Len(trade) + Cardinality({t \in Procs : pc[t] \in OpenPcs})

ClosePcs == {"c_call", "c_fetch"}
RECURSIVE SumSeq(_)
SumSeq(s) == IF s = <<>> THEN 0 ELSE Head(s) + SumSeq(Tail(s))
\* close_position calls started so far: orders sent and calls before theirs
ClosesStarted ==
    SumSeq(close_orders) + Cardinality({t \in Procs : pc[t] \in ClosePcs})
CallsStarted == OpensStarted + ClosesStarted

\* the call returns: ok tells success; the ledger's change is recorded
Return(t, l, ok) ==
    /\ pc' = [pc EXCEPT ![t] = "ret"]
    /\ loc' = [loc EXCEPT ![t] =
                 [Loc0 EXCEPT !.op = l.op, !.caller = l.caller, !.sym = l.sym,
                              !.todo = l.todo, !.dup = l.dup, !.orders = l.orders,
                              !.ok = ok, !.mut = l.mut \/ (ledger' # ledger)]]
\* the call goes on at label
Goto(t, l, label) ==
    /\ pc' = [pc EXCEPT ![t] = label]
    /\ loc' = [loc EXCEPT ![t] =
                 [l EXCEPT !.mut = l.mut \/ (ledger' # ledger)]]

QCase0 ==
    [symbol |-> "none", balance |-> 0, price |-> 0, allocation |-> None,
     quantity |-> None]

\* TradingEngine.__init__ and STRATEGY_CONFIG
InitEngine ==
    /\ initial_capital \in {Money(c) : c \in InitialCapitals}
    /\ available_balance = initial_capital
    /\ total_capital = initial_capital
    /\ trade = <<>>
    /\ trades = [s \in Symbols |-> <<>>]
    /\ active_positions = <<>>
    /\ closed_trades = <<>>
    /\ equity_curve = <<[equity |-> initial_capital, available |-> initial_capital]>>
    /\ stats = [initial_capital |-> initial_capital,
                current_capital |-> initial_capital,
                available_balance |-> initial_capital,
                total_trades |-> 0, winning_trades |-> 0, losing_trades |-> 0,
                total_profit_loss |-> 0, profit_loss_pct |-> ZeroRatio,
                win_rate |-> ZeroRatio, max_drawdown |-> ZeroRatio,
                roi |-> ZeroRatio]
    /\ network_latency = 0
    /\ last_error = "none"
    /\ enabled = FALSE
    /\ close_orders = <<>>
    /\ pc = [t \in Procs |-> "idle"]
    /\ loc = [t \in Procs |-> Loc0]

\* ------------------------------------------------- floating point
\* Python's float is the IEEE 754 binary64 format: a sign, a significand of
\* MantBits bits and a power of two; every operation returns the exact result
\* rounded to the nearest such number, ties to the even significand.  The
\* significand is kept as a natural number in digits of LimbBits bits, least
\* significant first, without leading zero digits.  The prices and indicator
\* values here are far from the ends of the exponent range, which is not
\* modelled.
MantBits == 53
LimbBits == 15
Pow2(n) == 2 ^ n
Base == Pow2(LimbBits)

\* a without its leading zero digits
BNorm(a) ==
    IF Len(a) = 0 \/ a[Len(a)] # 0 THEN SubSeq(a, 1, Len(a))
    ELSE SubSeq(a, 1, Cardinality({i \in 1..Len(a) :
                                     \E j \in i..Len(a) : a[j] # 0}))

\* the digits of n, 0 <= n < Base^3
BFromInt(n) ==
    BNorm(<<n % Base, (n \div Base) % Base, n \div (Base * Base)>>)

BDigit(a, i) == IF 1 <= i /\ i <= Len(a) THEN a[i] ELSE 0

\* a + b from the sums s of their digits: a digit takes a carry when some
\* digit below overflows and every digit between passes the carry on
BCarry(s, i) ==
    \E j \in 1..(i - 1) :
        s[j] >= Base /\ \A k \in (j + 1)..(i - 1) : s[k] = Base - 1
BAddSums(s) ==
    BNorm([i \in 1..Len(s) |-> (s[i] + (IF BCarry(s, i) THEN 1 ELSE 0)) % Base])
BAddLen(a, b, n) ==
    BAddSums(SubSeq([i \in 1..n |-> BDigit(a, i) + BDigit(b, i)], 1, n))
BAdd(a, b) == BAddLen(a, b, (IF Len(a) > Len(b) THEN Len(a) ELSE Len(b)) + 1)

\* the borrow from digit i of a - b
BBorrow(a, b, i) ==
    \E j \in 1..(i - 1) :
        /\ a[j] < BDigit(b, j)
        /\ \A k \in (j + 1)..(i - 1) : a[k] = BDigit(b, k)
\* a - b for a >= b
BSub(a, b) ==
    BNorm([i \in 1..Len(a) |->
              (a[i] - BDigit(b, i) - (IF BBorrow(a, b, i) THEN 1 ELSE 0)
                 + Base) % Base])

\* -1, 0 or 1 as a is below, equal to or above b
BCmpAt(a, b, n) ==
    IF n = 0 THEN 0 ELSE IF a[n] < b[n] THEN -1 ELSE 1
BCmp(a, b) ==
    IF Len(a) < Len(b) THEN -1
    ELSE IF Len(a) > Len(b) THEN 1
    ELSE BCmpAt(a, b, Cardinality({i \in 1..Len(a) :
                                     \E j \in i..Len(a) : a[j] # b[j]}))

\* a * k for 0 <= k <= Base: the low halves of the digit products plus the
\* high halves one digit up
BMulSmall(a, k) ==
    BAdd([i \in 1..Len(a) |-> (a[i] * k) % Base],
         [i \in 1..(Len(a) + 1) |-> IF i = 1 THEN 0 ELSE (a[i - 1] * k) \div Base])

BShiftLimbs(a, n) == IF a = <<>> THEN a ELSE [i \in 1..n |-> 0] \o a

\* the sum over i of f(a[i] * b[c - i]), for the digits b has
RECURSIVE BColumn(_, _, _, _, _)
BColumn(a, b, c, low, i) ==
    IF i > Len(a) THEN 0
    ELSE (IF 1 <= c - i /\ c - i <= Len(b)
          THEN IF low THEN (a[i] * b[c - i]) % Base
               ELSE (a[i] * b[c - i]) \div Base
          ELSE 0)
         + BColumn(a, b, c, low, i + 1)
\* a * b: column c holds the low halves of the digit products of that weight
\* and the high halves of the products one weight down
BMulColumns(cols) ==
    BAdd([c \in 1..Len(cols) |-> cols[c] % Base],
         [c \in 1..(Len(cols) + 1) |->
             IF c = 1 THEN 0 ELSE cols[c - 1] \div Base])
BMul(a, b) ==
    BMulColumns(SubSeq([c \in 1..(Len(a) + Len(b)) |->
                           BColumn(a, b, c + 1, TRUE, 1)
                             + BColumn(a, b, c, FALSE, 1)],
                       1, Len(a) + Len(b)))

\* a modulo d for the digits of a from digit i upwards, 0 < d <= Base
RECURSIVE BRemFrom(_, _, _)
BRemFrom(a, d, i) ==
    IF i > Len(a) THEN 0 ELSE (BRemFrom(a, d, i + 1) * Base + a[i]) % d
\* [q, r] with a = q * d + r and 0 <= r < d, for 0 < d <= Base
BDivSmall(a, d) ==
    [q |-> BNorm([i \in 1..Len(a) |->
                     (BRemFrom(a, d, i + 1) * Base + a[i]) \div d]),
     r |-> BRemFrom(a, d, 1)]

\* a * 2^n and the whole part of a / 2^n, n = k * LimbBits + s
BShlBy(a, k, s) ==
    BNorm([i \in 1..(Len(a) + k + 1) |->
              IF i <= k THEN 0
              ELSE ((BDigit(a, i - k) * Pow2(s)) % Base)
                     + (BDigit(a, i - k - 1) \div Pow2(LimbBits - s))])
BShl(a, n) == BShlBy(a, n \div LimbBits, n % LimbBits)
BShrBy(a, k, s) ==
    IF k >= Len(a) THEN <<>>
    ELSE BNorm([i \in 1..(Len(a) - k) |->
                   (a[i + k] \div Pow2(s))
                     + (BDigit(a, i + k + 1) % Pow2(s)) * Pow2(LimbBits - s)])
BShr(a, n) == BShrBy(a, n \div LimbBits, n % LimbBits)
\* bit n of a, bit 0 being the lowest, and whether a has a bit below bit n
BBit(a, n) == (BDigit(a, n \div LimbBits + 1) \div Pow2(n % LimbBits)) % 2
BHasBelow(a, n) ==
    \/ \E i \in 1..(n \div LimbBits) : BDigit(a, i) # 0
    \/ BDigit(a, n \div LimbBits + 1) % Pow2(n % LimbBits) # 0

\* the number of bits of n, 0 <= n < Base, and of a
IntBitLen(n) == Cardinality({k \in 0..(LimbBits - 1) : Pow2(k) <= n})
BBitLen(a) ==
    IF a = <<>> THEN 0 ELSE LimbBits * (Len(a) - 1) + IntBitLen(a[Len(a)])
BIsOdd(a) == a # <<>> /\ a[1] % 2 = 1

\* the float of the rounded significand r, which the rounding may have carried
\* to one bit more
float_round_carry(neg, r, exp) ==
    IF BBitLen(r) > MantBits
    THEN [neg |-> neg, m |-> BShr(r, 1), e |-> exp + 1]
    ELSE [neg |-> neg, m |-> r, e |-> exp]

\* q is mant without its lowest drop bits; half is the highest of the bits
\* dropped and below tells whether a lower one is set: to nearest, ties to
\* even
float_round_drop(neg, mant, exp, sticky, drop, q) ==
    float_round_carry(neg,
        IF BBit(mant, drop - 1) = 1
           /\ (BHasBelow(mant, drop - 1) \/ sticky \/ BIsOdd(q))
        THEN BAdd(q, <<1>>) ELSE q,
        exp + drop)

float_round_len(neg, mant, exp, sticky, len) ==
    IF len <= MantBits
    THEN [neg |-> neg, m |-> BShl(mant, MantBits - len),
          e |-> exp - (MantBits - len)]
    ELSE float_round_drop(neg, mant, exp, sticky, len - MantBits,
                          BShr(mant, len - MantBits))

\* the float nearest to mant * 2^exp, where sticky tells that the exact value
\* is a little above it (less than one unit of mant)
float_round(neg, mant, exp, sticky) ==
    IF mant = <<>> THEN [neg |-> neg, m |-> <<>>, e |-> 0]
    ELSE float_round_len(neg, mant, exp, sticky, BBitLen(mant))

\* float(n) for an integer n
float_of_int(n) ==
    float_round(n < 0, BFromInt(IF n < 0 THEN -n ELSE n), 0, FALSE)

float_neg(x) == [x EXCEPT !.neg = ~x.neg]

\* x + y for significands a and b aligned to the exponent e, side comparing
\* a with b
float_add_aligned(x, y, e, a, b, side) ==
    IF x.neg # y.neg /\ side = 0 THEN [neg |-> FALSE, m |-> <<>>, e |-> 0]
    ELSE float_round(IF x.neg = y.neg \/ side > 0 THEN x.neg ELSE y.neg,
                     IF x.neg = y.neg THEN BAdd(a, b)
                     ELSE IF side > 0 THEN BSub(a, b) ELSE BSub(b, a),
                     e, FALSE)

float_add_shifted(x, y, e, a, b) == float_add_aligned(x, y, e, a, b, BCmp(a, b))

float_add_at(x, y, e) ==
    float_add_shifted(x, y, e, BShl(x.m, x.e - e), BShl(y.m, y.e - e))

\* x + y
float_add(x, y) ==
    IF x.m = <<>> /\ y.m = <<>>
    THEN [neg |-> x.neg /\ y.neg, m |-> <<>>, e |-> 0]
    ELSE IF x.m = <<>> THEN y
    ELSE IF y.m = <<>> THEN x
    ELSE float_add_at(x, y, IF x.e < y.e THEN x.e ELSE y.e)

\* x - y
float_sub(x, y) == float_add(x, float_neg(y))

\* x * y
float_mul(x, y) ==
    float_round(x.neg # y.neg, BMul(x.m, y.m), x.e + y.e, FALSE)

\* the float of a quotient and its remainder
float_of_quotient(neg, res, exp) == float_round(neg, res.q, exp, res.r # 0)

\* x / d for an integer d, 0 < d <= Base
float_div_int(x, d) ==
    float_of_quotient(x.neg, BDivSmall(BShl(x.m, 2 * LimbBits), d),
                      x.e - 2 * LimbBits)

\* the float a decimal literal n / d denotes, and n / d for integers
float_of_ratio(n, d) == float_div_int(float_of_int(n), d)

\* x < 0 and x >= 0; -0.0 is not below 0
float_is_negative(x) == x.neg /\ x.m # <<>>

\* round(x, digits): the float nearest to the decimal of that many fractional
\* digits nearest to x, ties to the even digit
RECURSIVE BTimesTen(_, _)
BTimesTen(a, n) ==
    IF n = 0 \/ a = <<>> THEN a
    ELSE IF n >= 4 THEN BTimesTen(BMulSmall(a, 10000), n - 4)
    ELSE BTimesTen(BMulSmall(a, 10), n - 1)
\* [q, r] for a divided by 10^n, r telling only whether something is left over
RECURSIVE BOverTen(_, _, _)
BOverTenStep(res, n, left) ==
    BOverTen(res.q, n, IF res.r # 0 THEN 1 ELSE left)
BOverTen(a, n, left) ==
    IF n = 0 THEN [q |-> a, r |-> left]
    ELSE IF n >= 4 THEN BOverTenStep(BDivSmall(a, 10000), n - 4, left)
    ELSE BOverTenStep(BDivSmall(a, 10), n - 1, left)

\* q is scaled without its lowest drop bits: to the nearest whole, ties to even
float_units_drop(scaled, drop, q) ==
    IF BBit(scaled, drop - 1) = 1
       /\ (BHasBelow(scaled, drop - 1) \/ BIsOdd(q))
    THEN BAdd(q, <<1>>) ELSE q
\* the whole number nearest to scaled * 2^exp
float_units(scaled, exp) ==
    IF exp >= 0 THEN BShl(scaled, exp)
    ELSE float_units_drop(scaled, -exp, BShr(scaled, -exp))

float_round_digits(x, digits) ==
    IF x.m = <<>> THEN x
    ELSE float_of_quotient(x.neg,
             BOverTen(BShl(float_units(BTimesTen(x.m, digits), x.e),
                           6 * LimbBits), digits, 0),
             -6 * LimbBits)

\* x == y; 0.0 and -0.0 are equal
float_eq(x, y) == (x.m = <<>> /\ y.m = <<>>) \/ x = y

\* ------------------------------------------------- the signal engine
\* MACDStrategy.__init__, line 20
fast_period == 5
slow_period == 10
signal_period == 3
\* round(..., 8), lines 139-142
SignalDigits == 8
\* None in a list of EMA values and in prev_histogram
Absent == [absent |-> TRUE]

\* sum(data[:period]), which starts from the integer 0; totals are the sums
\* so far, of no element, of the first, of the first two and so on
RECURSIVE float_sums(_, _)
float_sums(data, totals) ==
    IF Len(totals) > Len(data) THEN totals
    ELSE float_sums(data, Append(totals,
             float_add(totals[Len(totals)], data[Len(totals)])))
float_sum(data) == float_sums(data, <<float_of_int(0)>>)[Len(data) + 1]

\* the loop of _ema, lines 51-53, ema being the list so far
RECURSIVE ema_loop(_, _, _)
ema_loop(data, multiplier, ema) ==
    IF Len(ema) >= Len(data) THEN ema
    ELSE ema_loop(data, multiplier,
             Append(ema,
                 float_add(float_mul(data[Len(ema) + 1], multiplier),
                           float_mul(ema[Len(ema)],
                                     float_sub(float_of_int(1), multiplier)))))

\* _ema seeded with the first element instead of the average
ema_seeded_first(data, period) ==
    IF Len(data) < period THEN [i \in 1..Len(data) |-> Absent]
    ELSE ema_loop(data, float_of_ratio(2, period + 1),
                  [i \in 1..(period - 1) |-> Absent] \o <<data[1]>>)

\* _ema(data, period), lines 37-55
ema(data, period) ==
    IF Len(data) < period THEN [i \in 1..Len(data) |-> Absent]
    ELSE LET multiplier == float_of_ratio(2, period + 1)
             sma == float_div_int(float_sum(SubSeq(data, 1, period)), period)
         IN  ema_loop(data, multiplier,
                      [i \in 1..(period - 1) |-> Absent] \o <<sma>>)

\* the values of a list that are not None, lines 100-106
RECURSIVE present(_, _)
present(line, i) ==
    IF i > Len(line) THEN <<>>
    ELSE (IF line[i] = Absent THEN <<>> ELSE <<line[i]>>) \o present(line, i + 1)

\* the crossover test with > in place of >=
crossover_strict(prev_histogram, current_histogram) ==
    IF prev_histogram = Absent THEN "NONE"
    ELSE IF float_is_negative(prev_histogram)
            /\ ~float_is_negative(current_histogram)
            /\ current_histogram.m # <<>>
    THEN "GOLDEN_CROSS"
    ELSE IF ~float_is_negative(prev_histogram) /\ prev_histogram.m # <<>>
            /\ float_is_negative(current_histogram)
    THEN "DEAD_CROSS"
    ELSE "NONE"

\* the crossover test taking a histogram that is not there yet for 0
crossover_from_zero(prev_histogram, current_histogram) ==
    LET prev == IF prev_histogram = Absent THEN float_of_int(0)
                ELSE prev_histogram
    IN  IF float_is_negative(prev) /\ ~float_is_negative(current_histogram)
        THEN "GOLDEN_CROSS"
        ELSE IF ~float_is_negative(prev) /\ float_is_negative(current_histogram)
        THEN "DEAD_CROSS"
        ELSE "NONE"

\* lines 125-133: the signal type from the previous and the current histogram
crossover(prev_histogram, current_histogram) ==
    IF prev_histogram = Absent THEN "NONE"
    ELSE IF float_is_negative(prev_histogram)
            /\ ~float_is_negative(current_histogram)
    THEN "GOLDEN_CROSS"
    ELSE IF ~float_is_negative(prev_histogram)
            /\ float_is_negative(current_histogram)
    THEN "DEAD_CROSS"
    ELSE "NONE"

\* MACDSignal(macd=0, signal=0, histogram=0, signal_type='NONE'), lines 86-93
\* and 109-116
NeutralSignal(close) ==
    [macd |-> float_of_int(0), signal |-> float_of_int(0),
     histogram |-> float_of_int(0), signal_type |-> "NONE", close |-> close]

\* MACDStrategy.__init__, lines 32-35
NewStrategy == [klines_history |-> <<>>, macd_history |-> <<>>,
                prev_histogram |-> Absent]

\* add_kline_result keeping the first histogram as prev_histogram for good
add_kline_result_stale_prev(st, history, close, current_macd, current_signal, current_histogram, signal_type) ==
    [strategy |->
         [klines_history |-> history,
          macd_history |-> Append(st.macd_history,
              [macd |-> float_round_digits(current_macd, SignalDigits),
               signal |-> float_round_digits(current_signal, SignalDigits),
               histogram |-> float_round_digits(current_histogram, SignalDigits),
               signal_type |-> signal_type, close |-> close]),
          prev_histogram |-> IF st.prev_histogram = Absent
                             THEN current_histogram ELSE st.prev_histogram],
     signal |->
         [macd |-> float_round_digits(current_macd, SignalDigits),
          signal |-> float_round_digits(current_signal, SignalDigits),
          histogram |-> float_round_digits(current_histogram, SignalDigits),
          signal_type |-> signal_type, close |-> close]]

\* lines 137-147: the MACDSignal of the three values, rounded, is appended to
\* macd_history and returned; line 135 keeps the histogram as it is
add_kline_result(st, history, close, current_macd, current_signal, current_histogram, signal_type) ==
    [strategy |->
         [klines_history |-> history,
          macd_history |-> Append(st.macd_history,
              [macd |-> float_round_digits(current_macd, SignalDigits),
               signal |-> float_round_digits(current_signal, SignalDigits),
               histogram |-> float_round_digits(current_histogram, SignalDigits),
               signal_type |-> signal_type, close |-> close]),
          prev_histogram |-> current_histogram],
     signal |->
         [macd |-> float_round_digits(current_macd, SignalDigits),
          signal |-> float_round_digits(current_signal, SignalDigits),
          histogram |-> float_round_digits(current_histogram, SignalDigits),
          signal_type |-> signal_type, close |-> close]]

\* lines 121-135: the histogram and the signal type
add_kline_histogram(st, history, close, current_macd, current_signal, current_histogram) ==
    add_kline_result(st, history, close, current_macd, current_signal,
                     current_histogram,
                     crossover(st.prev_histogram, current_histogram))

\* lines 119-123: the signal line and its latest value, 0 when it is None
add_kline_signal(st, history, close, current_macd, signal_line) ==
    IF signal_line[Len(signal_line)] # Absent
    THEN add_kline_histogram(st, history, close, current_macd,
             signal_line[Len(signal_line)],
             float_sub(current_macd, signal_line[Len(signal_line)]))
    ELSE add_kline_histogram(st, history, close, current_macd, float_of_int(0),
             float_sub(current_macd, float_of_int(0)))

\* lines 106-119, for the values of the MACD line that are not None
add_kline_macd(st, history, close, macd_values) ==
    IF Len(macd_values) < signal_period
    THEN [strategy |-> [st EXCEPT !.klines_history = history],
          signal |-> NeutralSignal(close)]
    ELSE add_kline_signal(st, history, close, macd_values[Len(macd_values)],
                          ema(macd_values, signal_period))

\* lines 100-103: the MACD line, the fast EMA minus the slow one where both
\* are there
macd_line(ema_fast, ema_slow) ==
    [i \in 1..Len(ema_fast) |->
        IF ema_fast[i] # Absent /\ ema_slow[i] # Absent
        THEN float_sub(ema_fast[i], ema_slow[i]) ELSE Absent]

\* lines 82-106, for the bars accumulated and their closes
add_kline_closes(st, history, close, closes) ==
    IF Len(closes) < slow_period + signal_period - 1
    THEN [strategy |-> [st EXCEPT !.klines_history = history],
          signal |-> NeutralSignal(close)]
    ELSE add_kline_macd(st, history, close,
             present(macd_line(ema(closes, fast_period),
                               ema(closes, slow_period)), 1))

\* lines 73-82: the bar is appended to klines_history
add_kline_history(st, history, close) ==
    add_kline_closes(st, history, close,
                     [i \in 1..Len(history) |-> history[i].close])

\* add_kline, lines 57-147, on the strategy st for a bar of that close; bar is
\* the open_time of the collector's bar the close was read from.  The result
\* is the strategy afterwards and the MACDSignal returned.
add_kline(st, close, bar) ==
    add_kline_history(st, Append(st.klines_history,
                                 [close |-> close, bar |-> bar]), close)

\* threads start_collection may create in one behaviour
MaxThreads == 2
\* a thread about to evaluate the loop condition of _collection_loop; asked
\* records that stop_collection was called while it was the collection thread
NewThread == [pc |-> "while", fetched |-> NoKline, asked |-> FALSE]

\* KlineCollector.__init__
InitCollector ==
    /\ clock = StartClock
    /\ klines = [s \in Symbols |-> <<>>]
    /\ current_kline = [s \in Symbols |-> NoKline]
    /\ last_update = [s \in Symbols |-> None]
    /\ price_data = NoKline
    /\ phase = "init"
    /\ nticks = 0
    /\ is_collecting = FALSE
    /\ threads = <<>>

\* the collector as initialize_components leaves it when the request for the
\* historical candles failed: start_collection was called, no pass was made
StartedCollector ==
    /\ clock = StartClock
    /\ klines = [s \in Symbols |-> <<>>]
    /\ current_kline = [s \in Symbols |-> NoKline]
    /\ last_update = [s \in Symbols |-> None]
    /\ price_data = NoKline
    /\ phase = "collecting"
    /\ nticks = 0
    /\ is_collecting = TRUE
    /\ threads = <<NewThread>>

\* MultiSymbolMACDStrategy with add_symbol called for every symbol, app.py
\* lines 45-52; no signal was returned and _ema was not evaluated
NoSignal == [signal_type |-> "none"]
NoCase == [data |-> <<>>, period |-> None, out |-> <<>>, done |-> FALSE]
InitStrategy ==
    /\ strategies = [s \in Symbols |-> NewStrategy]
    /\ last_signal = NoSignal
    /\ ecase = NoCase

Init == InitEngine /\ qcase = QCase0 /\ StartedCollector /\ InitStrategy

\* open_position giving up with no price when the probe left no latency
open_position_fetch_probe_gate(t) ==
    /\ pc[t] = "o_call"
    /\ \E ok \in BOOLEAN, elapsed \in LatencySamples :
         network_latency' = measure_network_latency(ok, elapsed)
    /\ UNCHANGED <<fixed, ledger, enabled, close_orders>>
    /\ LET l == [loc[t] EXCEPT !.dup = HasPosition(loc[t].sym)]
       IN \E current_price \in Prices \cup {NoPrice} :
            IF current_price = NoPrice \/ network_latency' = 0
            THEN /\ last_error' = "price"
                 /\ Return(t, l, FALSE)
            ELSE LET allocation_usdt == allocate_position_size(available_balance)
                 IN  IF allocation_usdt < Money(MinNotional)
                     THEN /\ last_error' = "funds"
                          /\ Return(t, l, FALSE)
                     ELSE /\ last_error' = "none"
                          /\ Goto(t, [l EXCEPT
                                 !.price = current_price,
                                 !.bal0 = available_balance,
                                 !.alloc = allocation_usdt,
                                 !.qty = format_quantity(l.sym, allocation_usdt,
                                             current_price * Money(1)),
                                 !.orders = @ + 1], "o_order")

\* open_position, lines 180-204: probe, price, allocation, quantity, and the
\* order is submitted
open_position_fetch(t) ==
    /\ pc[t] = "o_call"
    /\ \E ok \in BOOLEAN, elapsed \in LatencySamples :
         network_latency' = measure_network_latency(ok, elapsed)
    /\ UNCHANGED <<fixed, ledger, enabled, close_orders>>
    /\ LET l == [loc[t] EXCEPT !.dup = HasPosition(loc[t].sym)]
       IN \E current_price \in Prices \cup {NoPrice} :
            IF current_price = NoPrice
            THEN /\ last_error' = "price"
                 /\ Return(t, l, FALSE)
            ELSE LET allocation_usdt == allocate_position_size(available_balance)
                 IN  IF allocation_usdt < Money(MinNotional)
                     THEN /\ last_error' = "funds"
                          /\ Return(t, l, FALSE)
                     ELSE /\ last_error' = "none"
                          /\ Goto(t, [l EXCEPT
                                 !.price = current_price,
                                 !.bal0 = available_balance,
                                 !.alloc = allocation_usdt,
                                 !.qty = format_quantity(l.sym, allocation_usdt,
                                             current_price * Money(1)),
                                 !.orders = @ + 1], "o_order")

\* open_position debiting the balance before the order's outcome is known
open_position_order_debit_first(t) ==
    /\ pc[t] = "o_order"
    /\ UNCHANGED <<fixed, network_latency, enabled,
                   total_capital, closed_trades, equity_curve>>
    /\ available_balance' = available_balance - loc[t].alloc
    /\ \E accepted \in BOOLEAN :
         IF ~accepted
         THEN /\ last_error' = "order"
              /\ UNCHANGED <<trade, trades, active_positions, stats, close_orders>>
              /\ Return(t, loc[t], FALSE)
         ELSE LET l == loc[t]
                  tid == Len(trade) + 1
              IN  /\ last_error' = last_error
                  /\ trade' = Append(trade,
                        NewTrade(l.sym, l.side, l.price, l.qty, l.signal))
                  /\ trades' = [trades EXCEPT ![l.sym] = Append(@, tid)]
                  /\ active_positions' = ActiveSet(active_positions, l.sym, tid)
                  /\ stats' = [stats EXCEPT !.total_trades = @ + 1]
                  /\ close_orders' = Append(close_orders, 0)
                  /\ Return(t, [l EXCEPT !.tid = tid], TRUE)

\* open_position submitting a rejected order once more
open_position_order_retry(t) ==
    /\ pc[t] = "o_order"
    /\ UNCHANGED <<fixed, network_latency, enabled,
                   total_capital, closed_trades, equity_curve>>
    /\ \E accepted \in BOOLEAN :
         IF ~accepted
         THEN /\ last_error' = "order"
              /\ UNCHANGED <<available_balance, trade, trades, active_positions,
                             stats, close_orders>>
              /\ IF loc[t].orders < 2
                 THEN Goto(t, [loc[t] EXCEPT !.orders = @ + 1], "o_order")
                 ELSE Return(t, loc[t], FALSE)
         ELSE LET l == loc[t]
                  tid == Len(trade) + 1
              IN  /\ last_error' = last_error
                  /\ trade' = Append(trade,
                        NewTrade(l.sym, l.side, l.price, l.qty, l.signal))
                  /\ available_balance' = available_balance - l.alloc
                  /\ trades' = [trades EXCEPT ![l.sym] = Append(@, tid)]
                  /\ active_positions' = ActiveSet(active_positions, l.sym, tid)
                  /\ stats' = [stats EXCEPT !.total_trades = @ + 1]
                  /\ close_orders' = Append(close_orders, 0)
                  /\ Return(t, [l EXCEPT !.tid = tid], TRUE)

\* open_position, lines 199-234: the order's outcome, and on acceptance the
\* Trade is created and the ledger updated
open_position_order(t) ==
    /\ pc[t] = "o_order"
    /\ UNCHANGED <<fixed, network_latency, enabled,
                   total_capital, closed_trades, equity_curve>>
    /\ \E accepted \in BOOLEAN :
         IF ~accepted
         THEN /\ last_error' = "order"
              /\ UNCHANGED <<available_balance, trade, trades, active_positions,
                             stats, close_orders>>
              /\ Return(t, loc[t], FALSE)
         ELSE LET l == loc[t]
                  tid == Len(trade) + 1
              IN  /\ last_error' = last_error
                  /\ trade' = Append(trade,
                        NewTrade(l.sym, l.side, l.price, l.qty, l.signal))
                  /\ available_balance' = available_balance - l.alloc
                  /\ trades' = [trades EXCEPT ![l.sym] = Append(@, tid)]
                  /\ active_positions' = ActiveSet(active_positions, l.sym, tid)
                  /\ stats' = [stats EXCEPT !.total_trades = @ + 1]
                  /\ close_orders' = Append(close_orders, 0)
                  /\ Return(t, [l EXCEPT !.tid = tid], TRUE)

\* manual_position(symbol, 'open'), lines 325-333
manual_position_open(t, symbol, side) ==
    /\ pc[t] = "idle"
    /\ CallsStarted < MaxCalls
    /\ UNCHANGED <<fixed, ledger, network_latency, last_error,
                   enabled, close_orders>>
    /\ IF HasPosition(symbol)
       THEN UNCHANGED <<pc, loc>>
       ELSE /\ pc' = [pc EXCEPT ![t] = "o_call"]
            /\ loc' = [loc EXCEPT ![t] =
                  [Loc0 EXCEPT !.op = "open", !.caller = "manual",
                               !.sym = symbol, !.side = side,
                               !.signal = "MANUAL"]]

\* manual_position(symbol, 'close'), lines 343-347
manual_position_close(t, symbol) ==
    /\ pc[t] = "idle"
    /\ CallsStarted < MaxCalls
    /\ UNCHANGED <<fixed, ledger, network_latency, last_error,
                   enabled, close_orders>>
    /\ IF ~HasPosition(symbol)
       THEN UNCHANGED <<pc, loc>>
       ELSE /\ pc' = [pc EXCEPT ![t] = "c_call"]
            /\ loc' = [loc EXCEPT ![t] =
                  [Loc0 EXCEPT !.op = "close", !.caller = "manual",
                               !.sym = symbol, !.signal = "MANUAL"]]

\* close_position, lines 251-257: the Ledger's own check, then the probe starts
close_position_check(t) ==
    /\ pc[t] = "c_call"
    /\ UNCHANGED <<fixed, ledger, network_latency, enabled, close_orders>>
    /\ IF ~HasPosition(loc[t].sym)
       THEN /\ last_error' = "nopos"
            /\ Return(t, loc[t], FALSE)
       ELSE /\ last_error' = "none"
            /\ Goto(t, loc[t], "c_fetch")

\* close_position, lines 257-274: the probe ends, the Trade is looked up
\* (KeyError when it is gone by now), the price is fetched and the closing
\* order submitted
close_position_fetch(t) ==
    /\ pc[t] = "c_fetch"
    /\ \E ok \in BOOLEAN, elapsed \in LatencySamples :
         network_latency' = measure_network_latency(ok, elapsed)
    /\ UNCHANGED <<fixed, ledger, enabled>>
    /\ IF ~HasPosition(loc[t].sym)
       THEN /\ UNCHANGED <<last_error, close_orders>>
            /\ Return(t, loc[t], FALSE)
       ELSE \E current_price \in Prices \cup {NoPrice} :
              IF current_price = NoPrice
              THEN /\ last_error' = "price"
                   /\ UNCHANGED close_orders
                   /\ Return(t, [loc[t] EXCEPT !.tid = ActiveTrade(loc[t].sym)], FALSE)
              ELSE LET tid == ActiveTrade(loc[t].sym)
                   IN  /\ UNCHANGED last_error
                       /\ close_orders' = [close_orders EXCEPT ![tid] = @ + 1]
                       /\ Goto(t, [loc[t] EXCEPT !.tid = tid,
                                                 !.price = current_price,
                                                 !.orders = @ + 1], "c_order")

\* close_position, lines 276-283: the order's outcome; on acceptance the exit
\* price and quantity are written to the Trade, up to the call of datetime.now()
close_position_order(t) ==
    /\ pc[t] = "c_order"
    /\ UNCHANGED <<fixed, network_latency, enabled, close_orders,
                   available_balance, total_capital, trades, active_positions,
                   closed_trades, equity_curve, stats>>
    /\ \E accepted \in BOOLEAN :
         IF ~accepted
         THEN /\ last_error' = "order"
              /\ UNCHANGED trade
              /\ Return(t, loc[t], FALSE)
         ELSE LET tid == loc[t].tid
              IN  /\ UNCHANGED last_error
                  /\ trade' = [trade EXCEPT
                        ![tid].exit_price = loc[t].price,
                        ![tid].exit_quantity = trade[tid].entry_quantity]
                  /\ Goto(t, loc[t], "c_apply")

\* close_position, lines 283-330: the close is applied.  The division of
\* line 293 raises for a Trade of quantity 0 and the del of line 313 raises
\* when the symbol is no longer active: the except clause then returns None
\* with what was assigned so far kept.
close_position_apply(t) ==
    /\ pc[t] = "c_apply"
    /\ UNCHANGED <<fixed, network_latency, enabled, close_orders,
                   last_error, trades>>
    /\ LET tid == loc[t].tid
           tr == trade[tid]
           current_price == loc[t].price
           profit_loss == ProfitLoss(tr, current_price)
           cost == Notional(tr.entry_price, tr.entry_quantity)
           marked == [tr EXCEPT !.exit_time = 1, !.status = "closed",
                                !.profit_loss = profit_loss]
           exit_amount == Notional(current_price, tr.entry_quantity)
           st1 == [stats EXCEPT
                     !.winning_trades = IF profit_loss > 0 THEN @ + 1 ELSE @,
                     !.losing_trades = IF profit_loss < 0 THEN @ + 1 ELSE @,
                     !.total_profit_loss = @ + profit_loss]
           st2 == [st1 EXCEPT
                     !.profit_loss_pct =
                         Ratio(st1.total_profit_loss * Hundred, initial_capital),
                     !.win_rate =
                         IF st1.total_trades > 0
                         THEN Ratio(st1.winning_trades, st1.total_trades) ELSE @]
           curve == Append(equity_curve,
                       [equity |-> total_capital + profit_loss,
                        available |-> available_balance + exit_amount])
       IN  IF cost = 0
           THEN /\ trade' = [trade EXCEPT ![tid] = marked]
                /\ UNCHANGED <<available_balance, total_capital, active_positions,
                               closed_trades, equity_curve, stats>>
                /\ Return(t, loc[t], FALSE)
           ELSE /\ trade' = [trade EXCEPT ![tid] =
                      [marked EXCEPT !.profit_loss_pct =
                          Ratio(profit_loss * Hundred, cost)]]
                /\ available_balance' = available_balance + exit_amount
                /\ total_capital' = total_capital + profit_loss
                /\ IF ~HasPosition(loc[t].sym)
                   THEN /\ stats' = st2
                        /\ UNCHANGED <<active_positions, closed_trades, equity_curve>>
                        /\ Return(t, loc[t], FALSE)
                   ELSE /\ active_positions' = ActiveDel(active_positions, loc[t].sym)
                        /\ closed_trades' = Append(closed_trades, tid)
                        /\ equity_curve' = curve
                        /\ stats' = update_stats(st2, total_capital', available_balance', curve)
                        /\ Return(t, loc[t], TRUE)

\* strategy_check_signals, lines 86-87 and 110-128: what the decision tick
\* does with the signal add_kline returned
act_on_signal(signal_type) ==
    /\ pc[Sched] = "idle"
    /\ UNCHANGED <<ledger, network_latency, last_error, enabled, close_orders>>
    /\ LET has_position == HasPosition(StrategySymbol)
       IN  IF ~enabled THEN UNCHANGED <<pc, loc>>
           ELSE IF signal_type = "GOLDEN_CROSS" /\ ~has_position
           THEN IF Len(active_positions) < max_positions /\ CallsStarted < MaxCalls
                THEN /\ pc' = [pc EXCEPT ![Sched] = "o_call"]
                     /\ loc' = [loc EXCEPT ![Sched] =
                           [Loc0 EXCEPT !.op = "open", !.caller = "tick",
                                        !.sym = StrategySymbol, !.side = "BUY",
                                        !.signal = signal_type]]
                ELSE UNCHANGED <<pc, loc>>
           ELSE IF signal_type = "DEAD_CROSS" /\ has_position /\ CallsStarted < MaxCalls
           THEN /\ pc' = [pc EXCEPT ![Sched] = "c_call"]
                /\ loc' = [loc EXCEPT ![Sched] =
                      [Loc0 EXCEPT !.op = "close", !.caller = "tick",
                                   !.sym = StrategySymbol,
                                   !.signal = signal_type]]
           ELSE UNCHANGED <<pc, loc>>

\* strategy_check_signals, lines 85-128, for the signal add_kline returned
strategy_check_signals(signal_type) ==
    /\ act_on_signal(signal_type)
    /\ UNCHANGED fixed

\* start_strategy, lines 156-167
start_strategy(t) ==
    /\ pc[t] = "idle"
    /\ enabled' = TRUE
    /\ IF ~is_collecting /\ Len(threads) < MaxThreads
       THEN /\ phase' = "collecting"
            /\ is_collecting' = TRUE
            /\ threads' = Append(threads, NewThread)
            /\ UNCHANGED <<clock, klines, current_kline, last_update,
                           price_data, nticks>>
       ELSE UNCHANGED collector
    /\ UNCHANGED <<initial_capital, qcase, strategy, ledger, network_latency,
                   last_error, close_orders, pc, loc>>

\* stop_strategy, lines 171-178: the strategy is disabled and every symbol
\* active at this moment is queued for close_position, in the dict's order
stop_strategy(t) ==
    /\ pc[t] = "idle"
    /\ CallsStarted < MaxCalls
    /\ enabled' = FALSE
    /\ UNCHANGED <<fixed, ledger, network_latency, last_error, close_orders>>
    /\ LET keys == [i \in 1..Len(active_positions) |-> active_positions[i].symbol]
       IN  IF keys = <<>> THEN UNCHANGED <<pc, loc>>
           ELSE /\ pc' = [pc EXCEPT ![t] = "c_call"]
                /\ loc' = [loc EXCEPT ![t] =
                      [Loc0 EXCEPT !.op = "close", !.caller = "stop",
                                   !.sym = Head(keys), !.signal = "",
                                   !.todo = Tail(keys)]]

\* the scheduler's job _measure_network_latency, every 10 seconds
latency_job ==
    /\ \E ok \in BOOLEAN, elapsed \in LatencySamples :
         network_latency' = measure_network_latency(ok, elapsed)
    /\ UNCHANGED <<fixed, ledger, last_error, enabled, close_orders, pc, loc>>

\* get_network_latency, lines 386-390; the samples are whole milliseconds,
\* which round(..., 2) leaves as they are
get_network_latency ==
    [latency_ms |-> network_latency,
     status |-> IF network_latency >= 0 THEN "OK" ELSE "ERROR"]

\* Trade.to_dict, the fields a reader of positions looks at
to_dict(tr) ==
    [symbol |-> tr.symbol, status |-> tr.status, exit_price |-> tr.exit_price,
     exit_quantity |-> tr.exit_quantity, exit_time |-> tr.exit_time]

\* get_active_positions, line 352
get_active_positions ==
    [i \in 1..Len(active_positions) |-> to_dict(trade[active_positions[i].trade])]

\* the handler of /api/positions/active answers with what it read
query_active_positions(t) ==
    /\ pc[t] = "idle"
    /\ UNCHANGED <<fixed, ledger, network_latency, last_error,
                   enabled, close_orders>>
    /\ pc' = [pc EXCEPT ![t] = "ret"]
    /\ loc' = [loc EXCEPT ![t] =
          [Loc0 EXCEPT !.op = "query", !.ok = TRUE, !.view = get_active_positions]]

\* the handler of /api/strategy/stats: TradingEngine.get_stats, lines 383-384.
\* _update_stats divides by initial_capital at line 336, after its first two
\* assignments: with a capital of 0 the ZeroDivisionError leaves the call.
get_stats(t) ==
    /\ pc[t] = "idle"
    /\ UNCHANGED <<fixed, available_balance, total_capital, trade, trades,
                   active_positions, closed_trades, equity_curve,
                   network_latency, last_error, enabled, close_orders>>
    /\ pc' = [pc EXCEPT ![t] = "ret"]
    /\ IF initial_capital = 0
       THEN /\ stats' = [stats EXCEPT !.current_capital = total_capital,
                                      !.available_balance = available_balance]
            /\ loc' = [loc EXCEPT ![t] =
                  [Loc0 EXCEPT !.op = "stats", !.raised = TRUE]]
       ELSE /\ stats' = update_stats(stats, total_capital, available_balance,
                                     equity_curve)
            /\ loc' = [loc EXCEPT ![t] =
                  [Loc0 EXCEPT !.op = "stats", !.ok = TRUE,
                               !.view = <<stats_to_dict(stats')>>]]

\* the caller takes the result: stop_strategy goes on with the next symbol,
\* any other request or tick ends
Respond(t) ==
    /\ pc[t] = "ret"
    /\ UNCHANGED <<fixed, ledger, network_latency, last_error,
                   enabled, close_orders>>
    /\ IF loc[t].caller = "stop" /\ loc[t].todo # <<>>
       THEN /\ pc' = [pc EXCEPT ![t] = "c_call"]
            /\ loc' = [loc EXCEPT ![t] =
                  [Loc0 EXCEPT !.op = "close", !.caller = "stop",
                               !.sym = Head(loc[t].todo), !.signal = "",
                               !.todo = Tail(loc[t].todo)]]
       ELSE /\ pc' = [pc EXCEPT ![t] = "idle"]
            /\ loc' = [loc EXCEPT ![t] = Loc0]

Next ==
    \/ \E t \in Web, s \in Symbols, sd \in Sides : manual_position_open(t, s, sd)
    \/ \E t \in Web, s \in Symbols : manual_position_close(t, s)
    \/ \E t \in Web : start_strategy(t)
    \/ \E t \in Web : stop_strategy(t)
    \/ \E t \in Web : query_active_positions(t)
    \/ \E t \in Web : get_stats(t)
    \/ \E sig \in Signals : strategy_check_signals(sig)
    \/ latency_job
    \/ \E t \in Procs : open_position_fetch(t)
    \/ \E t \in Procs : open_position_order(t)
    \/ \E t \in Procs : close_position_check(t)
    \/ \E t \in Procs : close_position_fetch(t)
    \/ \E t \in Procs : close_position_order(t)
    \/ \E t \in Procs : close_position_apply(t)
    \/ \E t \in Procs : Respond(t)

Spec == Init /\ [][Next]_vars

\* ------------------------------------------- the quantity computation
\* Whole USDT up to which balances and small prices are drawn.
QtyMaxBalance == 60
QtyMaxPrice == 40
\* symbols of the precisions table, and one that is not in it
QtySymbols == {"BTCUSDT", "BNBUSDT", "DOGEUSDT"}
\* balances in quarters of a USDT, from 20 USDT on
QtyBalances == {k * (Money(1) \div 4) : k \in 80..(4 * QtyMaxBalance)}
QtyPrices == (1..QtyMaxPrice) \cup Prices

QtyInit ==
    /\ InitEngine
    /\ InitCollector
    /\ InitStrategy
    /\ initial_capital = Money(3000)
    /\ qcase \in [symbol : QtySymbols, balance : QtyBalances, price : QtyPrices,
                  allocation : {None}, quantity : {None}]

\* open_position, lines 191-196, for the balance, price and symbol of qcase
quantity_case ==
    /\ qcase.quantity = None
    /\ LET allocation_usdt == allocate_position_size(qcase.balance)
       IN  /\ allocation_usdt >= Money(MinNotional)
           /\ qcase' = [qcase EXCEPT
                 !.allocation = allocation_usdt,
                 !.quantity = format_quantity(qcase.symbol, allocation_usdt,
                                  qcase.price * Money(1))]
    /\ UNCHANGED <<initial_capital, ledger, network_latency, last_error,
                   enabled, close_orders, pc, loc, collector, strategy>>

QtyNext == quantity_case

SpecQty == QtyInit /\ [][QtyNext]_vars

\* ------------------------------------------- the drawdown computation
\* Points an equity curve may hold.
MaxCurve == 5
\* total capital after a close, whole USDT
DDEquities == {2000, 2900, 3000, 3030, 3100}

DDInit ==
    /\ InitEngine
    /\ InitCollector
    /\ InitStrategy
    /\ initial_capital = Money(3000)
    /\ qcase = QCase0

\* close_position, lines 317-324, for a close that leaves total_capital at
\* eq: the equity point is appended and _update_stats runs
update_stats_case(eq) ==
    /\ Len(equity_curve) < MaxCurve
    /\ total_capital' = Money(eq)
    /\ equity_curve' = Append(equity_curve,
          [equity |-> total_capital', available |-> available_balance])
    /\ stats' = update_stats(stats, total_capital', available_balance,
                             equity_curve')
    /\ UNCHANGED <<fixed, available_balance, trade, trades, active_positions,
                   closed_trades, network_latency, last_error, enabled,
                   close_orders, pc, loc>>

DDNext == \E eq \in DDEquities : update_stats_case(eq)

SpecDD == DDInit /\ [][DDNext]_vars

\* ------------------------------------------------- the bar aggregation
\* Passes of the collection loop followed in one behaviour.
MaxTicks == 4

\* last prices the exchange may report
BarPrices == {95, 100, 105}
\* ticker_24hr as _fetch_current_price returns it: the day's open, high, low
\* and volume, and the last price as close
Snapshots ==
    {[open |-> 90, high |-> 110, low |-> 90, close |-> p, volume |-> 7] :
        p \in BarPrices}
\* time from one pass of the loop to the next: the sleep and the time the
\* exchange takes to answer
Delays == {10 * UnitsPerSecond, 10 * UnitsPerSecond - 1, 25 * UnitsPerSecond}
\* the same in the behaviours that follow each thread of the loop
StopDelays == {20 * UnitsPerSecond}

\* the k-th of n one-minute candles the exchange returns at time t
Candle(k, n, t) ==
    LET minute == CandleSeconds * 1000
        first == (timestamp_ms(t) \div minute) * minute - (n - 1) * minute
    IN  [open_time |-> first + (k - 1) * minute, open |-> 100, high |-> 100,
         low |-> 100, close |-> 100, volume |-> 1,
         close_time |-> first + k * minute - 1]

\* the collector after HistoryCap - 1 bars of kline_interval seconds were
\* finalized, with a bar in progress that is 20 seconds old
AgedCollector ==
    LET step == kline_interval * UnitsPerSecond
        born == StartClock + HistoryCap * step
        pd == [open |-> 90, high |-> 110, low |-> 90, close |-> 100, volume |-> 7]
    IN  /\ clock = born + 20 * UnitsPerSecond
        /\ klines = [s \in Symbols |->
              [i \in 1..(HistoryCap - 1) |->
                  closed_kline(new_kline(StartClock + i * step, pd),
                               StartClock + i * step)]]
        /\ current_kline = [s \in Symbols |-> new_kline(born, pd)]
        /\ last_update = [s \in Symbols |-> born]
        /\ price_data = pd
        /\ phase = "collecting"
        /\ nticks = 0
        /\ is_collecting = TRUE
        /\ threads = <<NewThread>>

BarsInit ==
    /\ InitEngine
    /\ initial_capital = Money(3000)
    /\ qcase = QCase0
    /\ InitCollector \/ AgedCollector
    /\ InitStrategy

\* fetch_historical_klines(symbol, num_candles), lines 60-84, as
\* initialize_components calls it; n = 0 is a failed request
fetch_historical_klines(symbol, n) ==
    /\ phase = "init"
    /\ phase' = "bootstrapped"
    /\ klines' = [klines EXCEPT ![symbol] =
          @ \o [k \in 1..n |-> Candle(k, n, clock)]]
    /\ last_update' = IF klines'[symbol] # <<>>
                      THEN [last_update EXCEPT ![symbol] = clock]
                      ELSE last_update
    /\ UNCHANGED <<engine, strategy, clock, current_kline, price_data, nticks,
                   is_collecting, threads>>

\* start_collection, lines 181-189: nothing when already collecting, else the
\* flag is set and a new thread runs _collection_loop
start_collection ==
    /\ phase \in {"bootstrapped", "collecting"}
    /\ ~is_collecting
    /\ Len(threads) < MaxThreads
    /\ phase' = "collecting"
    /\ is_collecting' = TRUE
    /\ threads' = Append(threads, NewThread)
    /\ UNCHANGED <<engine, strategy, clock, klines, current_kline, last_update,
                   price_data, nticks>>

\* _update_kline(symbol), lines 105-163, at time now, where fetched is what
\* _fetch_current_price returned; a failed request only leaves the bar in
\* progress one pass older
apply_kline_age_on_failure(symbol, now, fetched) ==
    LET bar == current_kline[symbol]
    IN  IF fetched = NoKline
        THEN /\ last_update' = [last_update EXCEPT ![symbol] = now]
             /\ UNCHANGED <<klines, current_kline>>
        ELSE IF bar = NoKline
        THEN /\ current_kline' =
                  [current_kline EXCEPT ![symbol] = new_kline(now, fetched)]
             /\ last_update' = [last_update EXCEPT ![symbol] = now]
             /\ UNCHANGED klines
        ELSE LET last == IF last_update[symbol] = None THEN now
                         ELSE last_update[symbol]
             IN  IF kline_due(now, last)
                 THEN /\ klines' = [klines EXCEPT ![symbol] =
                            limit_history(Append(@, closed_kline(bar, last)))]
                      /\ current_kline' = [current_kline EXCEPT
                            ![symbol] = new_kline(now, fetched)]
                      /\ last_update' = [last_update EXCEPT ![symbol] = now]
                 ELSE /\ current_kline' = [current_kline EXCEPT
                            ![symbol] = updated_kline(bar, now, fetched)]
                      /\ UNCHANGED <<klines, last_update>>

\* _update_kline(symbol), lines 105-163, at time now, where fetched is what
\* _fetch_current_price returned
apply_kline(symbol, now, fetched) ==
    LET bar == current_kline[symbol]
    IN  IF fetched = NoKline
        THEN UNCHANGED <<klines, current_kline, last_update>>
        ELSE IF bar = NoKline
        THEN /\ current_kline' =
                  [current_kline EXCEPT ![symbol] = new_kline(now, fetched)]
             /\ last_update' = [last_update EXCEPT ![symbol] = now]
             /\ UNCHANGED klines
        ELSE LET last == IF last_update[symbol] = None THEN now
                         ELSE last_update[symbol]
             IN  IF kline_due(now, last)
                 THEN /\ klines' = [klines EXCEPT ![symbol] =
                            limit_history(Append(@, closed_kline(bar, last)))]
                      /\ current_kline' = [current_kline EXCEPT
                            ![symbol] = new_kline(now, fetched)]
                      /\ last_update' = [last_update EXCEPT ![symbol] = now]
                 ELSE /\ current_kline' = [current_kline EXCEPT
                            ![symbol] = updated_kline(bar, now, fetched)]
                      /\ UNCHANGED <<klines, last_update>>

\* one pass of _collection_loop, delay after the previous one, taken whole
update_kline(symbol, delay, fetched) ==
    /\ phase = "collecting"
    /\ is_collecting
    /\ nticks < MaxTicks
    /\ nticks' = nticks + 1
    /\ clock' = clock + delay
    /\ price_data' = fetched
    /\ UNCHANGED <<engine, strategy, phase, is_collecting, threads>>
    /\ apply_kline(symbol, clock', fetched)

BarsNext ==
    \/ \E s \in Symbols, n \in {0, num_candles} : fetch_historical_klines(s, n)
    \/ start_collection
    \/ \E s \in Symbols, d \in Delays, f \in Snapshots \cup {NoKline} :
          update_kline(s, d, f)

SpecBars == BarsInit /\ [][BarsNext]_vars

\* ------------------------------------------------- the collection loop
\* The passes of _collection_loop step by step, with stop_collection and
\* start_collection called from other threads.
InFlight ==
    Cardinality({t \in 1..Len(threads) : threads[t].pc \in {"fetch", "update"}})

StopInit ==
    /\ InitEngine
    /\ initial_capital = Money(3000)
    /\ qcase = QCase0
    /\ InitCollector
    /\ InitStrategy

\* stop_collection, lines 191-195: the flag is cleared; join(timeout=5) waits
\* and changes nothing
stop_collection ==
    /\ is_collecting
    /\ is_collecting' = FALSE
    /\ threads' = [threads EXCEPT ![Len(threads)].asked = TRUE]
    /\ UNCHANGED <<engine, strategy, clock, klines, current_kline, last_update,
                   price_data, phase, nticks>>

\* while self.is_collecting, line 167, evaluated by thread t
loop_while(t) ==
    /\ t \in DOMAIN threads
    /\ threads[t].pc = "while"
    /\ is_collecting => nticks + InFlight < MaxTicks
    /\ threads' = [threads EXCEPT
          ![t].pc = IF is_collecting THEN "fetch" ELSE "done"]
    /\ UNCHANGED <<engine, strategy, clock, klines, current_kline, last_update,
                   price_data, phase, nticks, is_collecting>>

\* _fetch_current_price(symbol), line 105: the exchange answers after delay
loop_fetch(t, delay, fetched) ==
    /\ t \in DOMAIN threads
    /\ threads[t].pc = "fetch"
    /\ clock' = clock + delay
    /\ threads' = [threads EXCEPT ![t].pc = "update", ![t].fetched = fetched]
    /\ UNCHANGED <<engine, strategy, klines, current_kline, last_update, price_data,
                   phase, nticks, is_collecting>>

\* the rest of _update_kline(symbol), lines 106-163, then time.sleep(1)
loop_update(t, symbol) ==
    /\ t \in DOMAIN threads
    /\ threads[t].pc = "update"
    /\ nticks' = nticks + 1
    /\ price_data' = threads[t].fetched
    /\ threads' = [threads EXCEPT ![t].pc = "while", ![t].fetched = NoKline]
    /\ apply_kline(symbol, clock, threads[t].fetched)
    /\ UNCHANGED <<engine, strategy, clock, phase, is_collecting>>

\* the steps of thread t
loop(t) ==
    \/ loop_while(t)
    \/ \E d \in StopDelays, f \in Snapshots \cup {NoKline} : loop_fetch(t, d, f)
    \/ \E s \in Symbols : loop_update(t, s)

StopNext ==
    \/ \E s \in Symbols, n \in {0, num_candles} : fetch_historical_klines(s, n)
    \/ start_collection
    \/ stop_collection
    \/ \E t \in 1..MaxThreads : loop_while(t)
    \/ \E t \in 1..MaxThreads, d \in StopDelays,
          f \in Snapshots \cup {NoKline} : loop_fetch(t, d, f)
    \/ \E t \in 1..MaxThreads, s \in Symbols : loop_update(t, s)

\* a thread that can take a step takes one: the request to the exchange
\* returns or raises, and the sleep ends
SpecStop ==
    StopInit /\ [][StopNext]_vars /\ \A t \in 1..MaxThreads : WF_vars(loop(t))

\* ------------------------------------------------- the moving average
\* Evaluations of _ema on series of up to MaxSeries values.
MaxSeries == 12
\* the periods add_kline calls _ema with, lines 96, 97 and 119
EmaPeriods == {signal_period, fast_period, slow_period}
\* the closes 0.1, 100.0 and 105.0
EmaValues == {float_of_ratio(1, 10), float_of_int(100), float_of_int(105)}
\* n values of which the first k are v and the others w
Series(v, w, k, n) == [i \in 1..n |-> IF i <= k THEN v ELSE w]

EmaInit ==
    /\ InitEngine
    /\ initial_capital = Money(3000)
    /\ qcase = QCase0
    /\ InitCollector
    /\ strategies = [s \in Symbols |-> NewStrategy]
    /\ last_signal = NoSignal
    /\ \E v \in EmaValues, w \in EmaValues, n \in 0..MaxSeries, p \in EmaPeriods :
          \E k \in 0..n :
             ecase = [data |-> Series(v, w, k, n), period |-> p, out |-> <<>>,
                      done |-> FALSE]

\* _ema(data, period) for the series and the period of ecase
ema_case ==
    /\ ~ecase.done
    /\ ecase' = [ecase EXCEPT !.out = ema(ecase.data, ecase.period),
                              !.done = TRUE]
    /\ UNCHANGED <<engine, collector, strategies, last_signal>>

EmaNext == ema_case

SpecEma == EmaInit /\ [][EmaNext]_vars

\* ------------------------------------------------- the signal history
\* Bars fed to one MACDStrategy in one behaviour.
MaxBars == 16
\* the closes of the bars fed: 100.0 up to the bar before the first that
\* yields a histogram, then 95.0, 100.0 or 105.0
MacdCloses(n) ==
    IF n < slow_period + signal_period - 2
    THEN {float_of_int(100)}
    ELSE {float_of_int(95), float_of_int(100), float_of_int(105)}

MacdInit ==
    /\ InitEngine
    /\ initial_capital = Money(3000)
    /\ qcase = QCase0
    /\ InitCollector
    /\ InitStrategy

\* MultiSymbolMACDStrategy.update_kline, lines 184-191
strategy_update_kline(symbol, close) ==
    /\ Len(strategies[symbol].klines_history) < MaxBars
    /\ LET res == add_kline(strategies[symbol], close, None)
       IN  /\ strategies' = [strategies EXCEPT ![symbol] = res.strategy]
           /\ last_signal' = res.signal
    /\ UNCHANGED <<engine, collector, ecase>>

\* MACDStrategy.reset, lines 161-165
reset(symbol) ==
    /\ strategies[symbol].klines_history # <<>>
    /\ strategies' = [strategies EXCEPT ![symbol] = NewStrategy]
    /\ last_signal' = NoSignal
    /\ UNCHANGED <<engine, collector, ecase>>

MacdNext ==
    \/ \E s \in Symbols :
          \E c \in MacdCloses(Len(strategies[s].klines_history)) :
             strategy_update_kline(s, c)
    \/ \E s \in Symbols : reset(s)

SpecMacd == MacdInit /\ [][MacdNext]_vars

\* ------------------------------------------------- the feed of the bars
\* The decision ticks next to the passes of the collection loop, up to the
\* first signal the tick acts on.
MaxFeeds == 3
\* candles the exchange returns of the num_candles asked for: none when the
\* request fails, or the few it has, enough for a first histogram
FeedCandles == {0, slow_period + signal_period - 1}
\* the last prices the exchange reports in these behaviours
FeedSnapshots == {f \in Snapshots : f.close # 100}

FeedInit ==
    /\ InitEngine
    /\ initial_capital = Money(3000)
    /\ qcase = QCase0
    /\ InitCollector
    /\ InitStrategy

\* add_kline for each bar of a list in turn, app.py lines 60-70, on a
\* strategy that was given the bars before and no other
RECURSIVE feed_klines(_, _)
feed_klines(st, bars) ==
    IF Len(st.klines_history) >= Len(bars) THEN st
    ELSE LET k == bars[Len(st.klines_history) + 1]
         IN  feed_klines(
                 add_kline(st, float_of_int(k.close), k.open_time).strategy,
                 bars)

\* initialize_components, lines 55-70: the historical candles are fetched
\* and each is fed to the symbol's strategy; the exchange returns n of them
initialize_history(symbol, n) ==
    /\ phase = "init"
    /\ phase' = "bootstrapped"
    /\ LET bars == klines[symbol] \o [k \in 1..n |-> Candle(k, n, clock)]
       IN  /\ klines' = [klines EXCEPT ![symbol] = bars]
           /\ last_update' = IF bars # <<>>
                             THEN [last_update EXCEPT ![symbol] = clock]
                             ELSE last_update
           /\ strategies' = [strategies EXCEPT ![symbol] =
                 feed_klines(strategies[symbol], bars)]
    /\ UNCHANGED <<engine, clock, current_kline, price_data, nticks,
                   is_collecting, threads, last_signal, ecase>>

\* strategy_check_signals, lines 85-128: the latest finalized bar of the
\* symbol is fed to its strategy and the tick acts on the signal returned
decision_tick(symbol) ==
    /\ enabled
    /\ klines[symbol] # <<>>
    /\ Len(strategies[symbol].klines_history) < Len(klines[symbol]) + MaxFeeds
    /\ LET kline == klines[symbol][Len(klines[symbol])]
           res == add_kline(strategies[symbol], float_of_int(kline.close),
                            kline.open_time)
       IN  /\ strategies' = [strategies EXCEPT ![symbol] = res.strategy]
           /\ last_signal' = res.signal
           /\ act_on_signal(res.signal.signal_type)
    /\ UNCHANGED <<initial_capital, qcase, collector, ecase>>

FeedNext ==
    \/ \E s \in Symbols, n \in FeedCandles : initialize_history(s, n)
    \/ start_collection
    \/ \E s \in Symbols, d \in StopDelays, f \in FeedSnapshots :
          update_kline(s, d, f)
    \/ \E t \in Web : start_strategy(t)
    \/ \E s \in Symbols : decision_tick(s)

SpecFeed == FeedInit /\ [][FeedNext]_vars

\* ------------------------------------------------------------- claims
Returned(t, op) == pc[t] = "ret" /\ loc[t].op = op
OpenTradesOf(sym) ==
    {i \in 1..Len(trade) : trade[i].symbol = sym /\ trade[i].status = "open"}
ClosedTrades == {i \in 1..Len(trade) : trade[i].status = "closed"}
RECURSIVE SumProfit(_)
SumProfit(S) ==
    IF S = {} THEN 0
    ELSE LET i == CHOOSE x \in S : TRUE
         IN  trade[i].profit_loss + SumProfit(S \ {i})

\* C1: an open_position call entered while the symbol has an active OPEN
\* Trade returns failure and changes nothing of the ledger.
C1_DuplicateOpenRejected ==
    \A t \in Procs :
        (Returned(t, "open") /\ loc[t].dup) => (~loc[t].ok /\ ~loc[t].mut)

\* C2: whatever the interleaving of ticks and manual opens, no symbol has two
\* Trades of status OPEN.
C2_AtMostOneOpenPerSymbol ==
    \A sym \in Symbols : Cardinality(OpenTradesOf(sym)) <= 1

\* C3: an open_position call that returns failure has changed no balance,
\* capital, trade, trade log, active position, counter or equity point.
C3_FailedOpenChangesNothing ==
    \A t \in Procs : (Returned(t, "open") /\ ~loc[t].ok) => ~loc[t].mut

\* C3 witness: an open whose order the exchange rejected has returned, with
\* another Trade already in the ledger.
C3_Witness ==
    \E t \in Procs :
        /\ Returned(t, "open") /\ ~loc[t].ok /\ loc[t].orders = 1
        /\ last_error = "order"
        /\ Len(trade) = 1

\* C4: a close_position call that returns failure has changed no ledger state.
C4_FailedCloseChangesNothing ==
    \A t \in Procs : (Returned(t, "close") /\ ~loc[t].ok) => ~loc[t].mut

\* C5: whenever no call is in progress, total_capital is initial_capital plus
\* the profit_loss of the CLOSED trades.
C5_CapitalIsInitialPlusClosedPnl ==
    (\A t \in Procs : pc[t] = "idle")
        => total_capital = initial_capital + SumProfit(ClosedTrades)

\* C6: the step that completes a successful close_position at price x of a
\* Trade with entry price e and quantity q sets pnl to (x - e)*q for a LONG
\* and (e - x)*q for a SHORT and pnl_pct to pnl/(e*q)*100, leaves the Trade
\* CLOSED with exit_quantity q, adds x*q to available_balance and pnl to
\* total_capital, takes the Trade out of the active positions and appends it
\* to the closed history.
C6_CloseEffect ==
    [][\A t \in Procs :
         (pc[t] = "c_apply" /\ pc'[t] = "ret" /\ loc'[t].ok) =>
            LET tid == loc[t].tid
                x == loc[t].price
                e == trade[tid].entry_price
                q == trade[tid].entry_quantity
                pnl == IF trade[tid].side = "BUY"
                       THEN (x - e) * q * Den ELSE (e - x) * q * Den
                now == trade'[tid]
            IN  /\ now.profit_loss = pnl
                /\ now.profit_loss_pct = Ratio(pnl * 100, e * q * Den)
                /\ e * q # 0
                /\ now.status = "closed"
                /\ now.exit_quantity = q
                /\ available_balance' = available_balance + x * q * Den
                /\ total_capital' = total_capital + pnl
                /\ \A i \in 1..Len(active_positions') :
                      active_positions'[i].trade # tid
                /\ closed_trades' = Append(closed_trades, tid)]_vars

\* C6 witness: the LONG of 0.030 opened at 50000 with capital 3000 has been
\* closed at 51000: pnl 30, balance and capital 3030; and likewise a SHORT
\* has been closed at a loss.
C6_Witness ==
    \/ \E t \in Procs :
        /\ Returned(t, "close") /\ loc[t].ok
        /\ trade[1].side = "BUY" /\ trade[1].entry_quantity = 30
        /\ trade[1].status = "closed" /\ trade[1].profit_loss = Money(30)
        /\ available_balance = Money(3030) /\ total_capital = Money(3030)
        /\ closed_trades = <<1>> /\ active_positions = <<>>
    \/ \E t \in Procs :
        /\ Returned(t, "close") /\ loc[t].ok
        /\ trade[1].side = "SELL" /\ trade[1].status = "closed"
        /\ trade[1].profit_loss = - Money(30)
        /\ Len(trade) = 2

\* C7: the step that completes a successful open_position takes the
\* allocation, half of the balance the call found, off available_balance,
\* creates one Trade, OPEN, at the fetched price, appends it to the symbol's
\* trade log, makes it the symbol's active position and counts it in
\* total_trades; total_capital stays.
C7_OpenEffect ==
    [][\A t \in Procs :
         (pc[t] = "o_order" /\ pc'[t] = "ret" /\ loc'[t].ok) =>
            LET l == loc[t]
                tid == Len(trade) + 1
            IN  /\ 2 * l.alloc = l.bal0
                /\ available_balance' = available_balance - l.alloc
                /\ Len(trade') = tid
                /\ \A i \in 1..Len(trade) : trade'[i] = trade[i]
                /\ trade'[tid].status = "open"
                /\ trade'[tid].entry_price = l.price
                /\ trade'[tid].symbol = l.sym
                /\ trade'[tid].side = l.side
                /\ trades' = [trades EXCEPT ![l.sym] = Append(@, tid)]
                /\ \E i \in 1..Len(active_positions') :
                      active_positions'[i] = [symbol |-> l.sym, trade |-> tid]
                /\ stats'.total_trades = stats.total_trades + 1
                /\ total_capital' = total_capital]_vars

\* C7 witness: with capital 3000 a LONG was opened at 50000: allocation 1500,
\* quantity 0.030, balance 1500.
C7_Witness ==
    \E t \in Procs :
        /\ Returned(t, "open") /\ loc[t].ok
        /\ initial_capital = Money(3000)
        /\ Len(trade) = 1 /\ trade[1].entry_price = 50000
        /\ trade[1].entry_quantity = 30 /\ trade[1].side = "BUY"
        /\ available_balance = Money(1500)

\* the lot of a symbol, in 1/1000 coins: 2 decimals for BNBUSDT, 3 otherwise
LotStep(symbol) == IF symbol = "BNBUSDT" THEN 10 ELSE 1

C9_OneClosingOrder ==
    \A t1, t2 \in Procs :
        (/\ t1 # t2
         /\ pc[t1] \in {"c_order", "c_apply"}
         /\ pc[t2] \in {"c_order", "c_apply"})
            => loc[t1].tid # loc[t2].tid

\* C10: every Trade a reader gets from get_active_positions is OPEN and has no
\* exit price and no exit time.
C10_ReaderSeesOpenTrades ==
    \A t \in Procs :
        Returned(t, "query") =>
            \A i \in 1..Len(loc[t].view) :
                /\ loc[t].view[i].status = "open"
                /\ loc[t].view[i].exit_price = None
                /\ loc[t].view[i].exit_time = None

\* the statistics recomputed from the trade records
WinningTrades == {i \in ClosedTrades : trade[i].profit_loss > 0}
LosingTrades == {i \in ClosedTrades : trade[i].profit_loss < 0}

\* C11: the equity curve has one point more than there are Trades of status
\* CLOSED: one from construction and one from each close.
C11_EquityCurveLength ==
    Len(equity_curve) = 1 + Cardinality(ClosedTrades)

\* C12: the statistics get_stats returns are those recomputed from the trade
\* records at that moment: total_trades the number of Trades, winning_trades
\* and losing_trades the numbers of CLOSED Trades of positive and negative
\* pnl, total_profit_loss the sum of the closed pnl, win_rate winning_trades
\* over total_trades.
C12_StatsMatchLedger ==
    [][\A t \in Procs :
         (pc[t] = "idle" /\ pc'[t] = "ret" /\ loc'[t].op = "stats" /\ loc'[t].ok) =>
            LET got == loc'[t].view[1]
            IN  /\ got.total_trades = Len(trade)
                /\ got.winning_trades = Cardinality(WinningTrades)
                /\ got.losing_trades = Cardinality(LosingTrades)
                /\ got.total_profit_loss = round_money(SumProfit(ClosedTrades))
                /\ got.win_rate =
                      IF Len(trade) = 0 THEN 0
                      ELSE round_ratio(Ratio(Cardinality(WinningTrades),
                                             Len(trade)))]_vars

\* C13: a get_stats call leaves balance, capital, trades, active positions
\* and equity curve as they were, and a second get_stats made right after it
\* returns what the first returned.
C13_StatsReadIdempotent ==
    [][\A t \in Procs :
         (pc[t] = "idle" /\ pc'[t] = "ret" /\ loc'[t].op = "stats" /\ loc'[t].ok) =>
            LET again == update_stats(stats', total_capital', available_balance',
                                      equity_curve')
            IN  /\ stats_to_dict(again) = loc'[t].view[1]
                /\ again = stats'
                /\ UNCHANGED <<available_balance, total_capital, trade, trades,
                               active_positions, closed_trades, equity_curve>>]_vars

\* C13 witness: get_stats has returned after a SHORT was closed at a loss of
\* 30 on a capital of 3000: roi -1%, drawdown 1%.
C13_Witness ==
    \E t \in Procs :
        /\ Returned(t, "stats") /\ loc[t].ok
        /\ loc[t].view[1].total_trades = 1
        /\ loc[t].view[1].losing_trades = 1
        /\ loc[t].view[1].roi = - (10 ^ RatioDigits)
        /\ loc[t].view[1].max_drawdown = 10 ^ (RatioDigits - 2)
        /\ loc[t].view[1].current_capital = 2970 * (10 ^ MoneyDigits)

\* the highest equity among the first i points of the curve
RunningPeak(i) ==
    CHOOSE m \in {equity_curve[j].equity : j \in 1..i} :
        \A j \in 1..i : equity_curve[j].equity <= m
\* the drawdown at point i: (running peak - equity) / running peak
DrawdownAt(i) == Ratio(RunningPeak(i) - equity_curve[i].equity, RunningPeak(i))
RatioLeq(x, y) == ~FracLess(y.num, y.den, x.num, x.den)

\* C14: max_drawdown is the greatest drawdown (running peak - equity) /
\* running peak over the points of the equity curve, and it never decreases
\* when the curve grows.
C14_MaxDrawdown ==
    /\ [](/\ \A i \in 1..Len(equity_curve) :
                RatioLeq(DrawdownAt(i), stats.max_drawdown)
          /\ \E i \in 1..Len(equity_curve) :
                RatioLeq(stats.max_drawdown, DrawdownAt(i)))
    /\ [][RatioLeq(stats.max_drawdown, stats'.max_drawdown)]_vars

\* C14 witness: the curve 3000, 3030, 2900 with max_drawdown 130/3030.
C14_Witness ==
    /\ Len(equity_curve) = 3
    /\ equity_curve[2].equity = Money(3030)
    /\ equity_curve[3].equity = Money(2900)
    /\ stats.max_drawdown = Ratio(Money(130), Money(3030))

\* C15: no call of a public operation of the Ledger ends in an exception
\* that leaves the operation.
C15_NoUncaughtFault ==
    \A t \in Procs : ~loc[t].raised

\* C16: one call of open_position or close_position submits at most one
\* order to the exchange, accepted or not.
C16_OneOrderPerCall ==
    \A t \in Procs : loc[t].orders <= 1

\* C16 witness: a close_position whose closing order the exchange rejected
\* has returned failure, having submitted that one order.
C16_Witness ==
    \E t \in Procs :
        /\ Returned(t, "close") /\ ~loc[t].ok
        /\ loc[t].orders = 1
        /\ last_error = "order"
        /\ close_orders[1] = 1

\* a pass of the collection loop that got a snapshot while symbol s had a bar
\* in progress
TickOnBar(s) ==
    nticks' = nticks + 1 /\ price_data' # NoKline /\ current_kline[s] # NoKline
LastKline(h) == h[Len(h)]
SamePrices(a, b) ==
    /\ a.open = b.open /\ a.high = b.high /\ a.low = b.low
    /\ a.close = b.close /\ a.volume = b.volume /\ a.open_time = b.open_time

\* C17: last_update is the instant the bar in progress was created, and a
\* tick at t finalizes the bar created at c exactly when t - c >=
\* kline_interval; the bar appended has the prices the bar had before the tick,
\* and the new bar has open = high = low = close = the snapshot's close,
\* volume 0 and open_time t; otherwise the bar in progress stays the same bar.
C17_FinalizeOnElapsed ==
    /\ [](\A s \in Symbols :
            current_kline[s] # NoKline =>
                /\ last_update[s] # None
                /\ current_kline[s].open_time = timestamp_ms(last_update[s]))
    /\ [][\A s \in Symbols :
            TickOnBar(s) =>
                LET t == clock'
                    c == last_update[s]
                    finalized == klines'[s] # klines[s]
                    seeded == current_kline'[s]
                IN  /\ finalized <=> (t - c >= kline_interval * UnitsPerSecond)
                    /\ finalized =>
                          /\ SamePrices(LastKline(klines'[s]), current_kline[s])
                          /\ seeded.open = price_data'.close
                          /\ seeded.high = price_data'.close
                          /\ seeded.low = price_data'.close
                          /\ seeded.close = price_data'.close
                          /\ seeded.volume = 0
                          /\ seeded.open_time = timestamp_ms(t)
                    /\ ~finalized =>
                          seeded.open_time = current_kline[s].open_time]_vars

\* C17 witness: after the bootstrap, ticks at 100, then 105 ten seconds
\* later, then 95 twenty-five seconds after that: the bar 100/105/100/105 is
\* in the history and the bar in progress is seeded at 95.
C17_Witness ==
    \E s \in Symbols :
        /\ Len(klines[s]) = num_candles + 1
        /\ LastKline(klines[s]).open = 100
        /\ LastKline(klines[s]).high = 105
        /\ LastKline(klines[s]).low = 100
        /\ LastKline(klines[s]).close = 105
        /\ current_kline[s].open = 95
        /\ current_kline[s].high = 95
        /\ current_kline[s].open_time = timestamp_ms(clock)
        /\ clock - last_update[s] = 0
        /\ nticks = 3

\* high and low bracket open and close
WellFormed(b) ==
    /\ b.high >= b.open /\ b.high >= b.close
    /\ b.low <= b.open /\ b.low <= b.close

\* C18: the bar in progress and every bar of the history have high >=
\* max(open, close) and low <= min(open, close).
C18_HighLowBracket ==
    \A s \in Symbols :
        /\ current_kline[s] # NoKline => WellFormed(current_kline[s])
        /\ \A i \in 1..Len(klines[s]) : WellFormed(klines[s][i])

\* C18 witness: a bar opened at 100 that went to 105 and then to 95 was
\* finalized by a tick.
C18_Witness ==
    \E s \in Symbols :
        /\ klines[s] # <<>>
        /\ LastKline(klines[s]).open = 100
        /\ LastKline(klines[s]).high = 105
        /\ LastKline(klines[s]).low = 95
        /\ LastKline(klines[s]).close = 95
        /\ current_kline[s].open = 100

\* C19: every bar a tick finalizes and appends to the history has
\* open_time < close_time.
C19_OpenBeforeClose ==
    [][\A s \in Symbols :
         (TickOnBar(s) /\ klines'[s] # klines[s]) =>
            LastKline(klines'[s]).open_time < LastKline(klines'[s]).close_time]_vars

C21_FinalizedBarsImmutable ==
    [][\A s \in Symbols :
         \E d \in {0, 1} :
            /\ Len(klines'[s]) >= Len(klines[s]) - d
            /\ \A i \in (d + 1)..Len(klines[s]) :
                  klines'[s][i - d] = klines[s][i]]_vars

\* C21 witness: a bar was finalized by the third tick and the fourth tick
\* updated the bar in progress at another price.
C21_Witness ==
    \E s \in Symbols :
        /\ nticks = 4
        /\ Len(klines[s]) = num_candles + 1
        /\ LastKline(klines[s]).volume = 0
        /\ current_kline[s].high > current_kline[s].low
        /\ current_kline[s].close_time > current_kline[s].open_time

\* C22: a pass whose snapshot request failed leaves the history, the bar in
\* progress and the time of the last update of every symbol as they were, and
\* the loop goes on collecting.
C22_FailedFetchChangesNothing ==
    [][(nticks' = nticks + 1 /\ price_data' = NoKline)
          => /\ UNCHANGED <<klines, current_kline, last_update>>
             /\ phase' = "collecting"
             /\ is_collecting' = is_collecting]_vars

\* C22 witness: the request failed on a pass that came after the bar in
\* progress had reached its interval, and that bar is still in progress.
C22_Witness ==
    \E s \in Symbols :
        /\ nticks >= 2
        /\ price_data = NoKline
        /\ current_kline[s] # NoKline
        /\ last_update[s] # None
        /\ kline_due(clock, last_update[s])

\* C23: a thread of the loop that stop_collection was called on starts no
\* further pass: from the loop condition it only goes to its end.
C23_StoppedLoopStartsNoTick ==
    [][\A t \in 1..Len(threads) :
          (threads[t].asked /\ threads[t].pc = "while")
             => threads'[t].pc \in {"while", "done"}]_vars

\* the average of the first period values of data
SimpleAverage(data, period) ==
    float_div_int(float_sum(SubSeq(data, 1, period)), period)

\* C27: _ema returns as many entries as data has; the entries before index
\* period - 1 are absent, all of them when data is shorter than period; the
\* entry at index period - 1 is the average of the first period values; every
\* later entry is data[i] * k + previous * (1 - k) with k = 2 / (period + 1).
C27_EmaShape ==
    ecase.done =>
        LET data == ecase.data
            period == ecase.period
            out == ecase.out
            k == float_of_ratio(2, period + 1)
        IN  /\ Len(out) = Len(data)
            /\ \A i \in 1..Len(out) :
                  /\ i < period => out[i] = Absent /\ out[i] # float_of_int(0)
                  /\ i = period => out[i] = SimpleAverage(data, period)
                  /\ i > period =>
                        out[i] = float_add(float_mul(data[i], k),
                                           float_mul(out[i - 1],
                                               float_sub(float_of_int(1), k)))

\* C27 witness: _ema was evaluated with the slow period on a series of
\* MaxSeries values that are not all the same.
C27_Witness ==
    /\ ecase.done
    /\ ecase.period = slow_period
    /\ Len(ecase.data) = MaxSeries
    /\ ecase.data[1] # ecase.data[slow_period]
    /\ ecase.out[MaxSeries] # Absent

\* C28: on a series of period or more equal values v, every entry of _ema
\* that is there equals v.
C28_ConstantSeries ==
    (/\ ecase.done
     /\ Len(ecase.data) >= ecase.period
     /\ \A i \in 1..Len(ecase.data) : ecase.data[i] = ecase.data[1])
        => \A i \in ecase.period..Len(ecase.out) :
              float_eq(ecase.out[i], ecase.data[1])

\* closes a strategy has accumulated, and the histogram they give: the fast
\* EMA minus the slow one, minus the signal EMA of those differences
ClosesOf(st) == [i \in 1..Len(st.klines_history) |-> st.klines_history[i].close]
HistogramOf(closes) ==
    LET fast == ema(closes, fast_period)
        slow == ema(closes, slow_period)
        macd == present([i \in 1..Len(closes) |->
                    IF fast[i] # Absent /\ slow[i] # Absent
                    THEN float_sub(fast[i], slow[i]) ELSE Absent], 1)
        trigger == ema(macd, signal_period)
    IN  float_sub(macd[Len(macd)], trigger[Len(trigger)])
\* closes from which the histogram is defined
WarmBars == slow_period + signal_period - 1
BarFed(s) ==
    Len(strategies'[s].klines_history) = Len(strategies[s].klines_history) + 1
IsZero(x) == float_eq(x, float_of_int(0))

C25_WarmUp ==
    [][\A s \in Symbols :
          BarFed(s) =>
             LET n == Len(strategies'[s].klines_history)
             IN  /\ n < WarmBars =>
                       /\ last_signal'.signal_type = "NONE"
                       /\ IsZero(last_signal'.macd)
                       /\ IsZero(last_signal'.signal)
                       /\ IsZero(last_signal'.histogram)
                       /\ strategies'[s].prev_histogram = Absent
                 /\ n = WarmBars =>
                       /\ last_signal'.signal_type = "NONE"
                       /\ strategies'[s].prev_histogram # Absent]_vars

\* C25 witness: the bar that gave the first histogram, a histogram below 0,
\* returned NONE.
C25_Witness ==
    \E s \in Symbols :
        /\ Len(strategies[s].klines_history) = WarmBars
        /\ strategies[s].prev_histogram # Absent
        /\ float_is_negative(strategies[s].prev_histogram)
        /\ last_signal.signal_type = "NONE"
        /\ float_is_negative(last_signal.histogram)

\* C26: the signal history of a symbol has one entry for each bar fed since
\* the strategy was created or reset.
C26_OneSignalPerBar ==
    \A s \in Symbols :
        Len(strategies[s].macd_history) = Len(strategies[s].klines_history)

\* values _measure_network_latency can leave in network_latency
ProbeOutcomes ==
    {measure_network_latency(ok, elapsed) :
        ok \in BOOLEAN, elapsed \in LatencySamples}
OpenErrors == {"none", "price", "funds"}

\* C29: a step that changes network_latency changes nothing else of the ledger
\* and raises nothing; and whatever open_position or close_position can do
\* after the probe (go on to the order at a given price, or return with a
\* given error), it can do with every outcome of the probe.
C29_ProbeIsAdvisory ==
    /\ [][network_latency' # network_latency =>
             /\ ledger' = ledger
             /\ \A t \in Procs : loc'[t].raised = loc[t].raised]_vars
    /\ [](\A t \in Procs, v \in ProbeOutcomes, e \in OpenErrors,
             price \in Prices \cup {Loc0.price} :
             /\ \A label \in {"ret", "o_order"} :
                   (pc[t] = "o_call"
                    /\ ENABLED (/\ open_position_fetch(t)
                                /\ pc'[t] = label
                                /\ last_error' = e
                                /\ loc'[t].price = price))
                      => ENABLED (/\ open_position_fetch(t)
                                  /\ network_latency' = v
                                  /\ pc'[t] = label
                                  /\ last_error' = e
                                  /\ loc'[t].price = price)
             /\ \A label \in {"ret", "c_order"} :
                   (pc[t] = "c_fetch"
                    /\ ENABLED (/\ close_position_fetch(t)
                                /\ pc'[t] = label
                                /\ last_error' = e
                                /\ loc'[t].price = price))
                      => ENABLED (/\ close_position_fetch(t)
                                  /\ network_latency' = v
                                  /\ pc'[t] = label
                                  /\ last_error' = e
                                  /\ loc'[t].price = price))

\* C29 witness: after a trade was closed, an open_position is past its probe
\* and submits its order while network_latency is what a failed probe leaves.
C29_Witness ==
    \E t \in Procs :
        /\ pc[t] = "o_order"
        /\ network_latency = 0
        /\ Len(closed_trades) >= 1

\* C30: no bar is fed to a symbol's strategy twice: the closes the strategy
\* has accumulated come from different bars.
C30_BarFedOnce ==
    \A s \in Symbols :
        LET h == strategies[s].klines_history
        IN  \A i \in 1..Len(h), j \in 1..Len(h) :
               i # j => h[i].bar # h[j].bar

\* C31: the available balance is never negative and never above the total
\* capital.
C31_BalanceWithinCapital ==
    0 <= available_balance /\ available_balance <= total_capital

\* the cross signals among the signals a strategy returned since its last
\* reset, in order
RECURSIVE CrossesOf(_, _)
CrossesOf(history, i) ==
    IF i > Len(history) THEN <<>>
    ELSE (IF history[i].signal_type = "NONE" THEN <<>>
          ELSE <<history[i].signal_type>>) \o CrossesOf(history, i + 1)

\* C32: for each symbol the cross signals returned since the last reset
\* alternate: a GOLDEN_CROSS is followed by a DEAD_CROSS and a DEAD_CROSS by
\* a GOLDEN_CROSS, never by a cross of its own kind.
C32_CrossesAlternate ==
    \A s \in Symbols :
        LET crosses == CrossesOf(strategies[s].macd_history, 1)
        IN  \A i \in 1..(Len(crosses) - 1) : crosses[i] # crosses[i + 1]

\* C32 witness: a strategy has returned three crosses since its last reset.
C32_Witness ==
    \E s \in Symbols : Len(CrossesOf(strategies[s].macd_history, 1)) >= 3

\* the threads of _collection_loop that have not left the loop
RunningLoops == {t \in 1..Len(threads) : threads[t].pc # "done"}

\* C33: while the collector is collecting, at most one thread is in the
\* collection loop: no thread started before the last stop_collection is
\* still making passes next to the thread the last start_collection made.
C33_OneLoopTicks == is_collecting => Cardinality(RunningLoops) <= 1

\* C34: after a run of the scheduler's latency probe in which the request to
\* the exchange failed, get_network_latency does not report the status OK.
C34_FailedProbeNotOK ==
    [][\A elapsed \in LatencySamples :
          (latency_job
           /\ network_latency' = measure_network_latency(FALSE, elapsed))
             => get_network_latency'.status # "OK"]_vars

====
